---------------------------- MODULE Spec2Model ----------------------------
(***************************************************************************)
(* Model of github.com/semrekkers/sqlz: the Scanner (Scan, scanSlice,      *)
(* scanChan, mapFieldDest), its type cache (cache.getStructFieldIndex,     *)
(* fillStructFieldIndex) and the result cursor (Rows) it drives.           *)
(***************************************************************************)
EXTENDS Integers, Sequences, FiniteSets, TLC

(***************************************************************************)
(* Bounds of the model.                                                    *)
(***************************************************************************)
\* largest number of rows a cursor holds
MaxRows == 2
\* longest column list a cursor reports
MaxCols == 2
\* largest buffer of the sink channel
MaxChanCap == 1

(***************************************************************************)
(* Go values.  A struct type (reflect.Type) is the sequence of its field    *)
(* descriptors (reflect.StructField); Go's field offset i is position i+1  *)
(* here.  Elem is the type of an embedded struct field, and empty for      *)
(* every field whose type is never looked into.                            *)
(***************************************************************************)
Fld(name, tag, anonymous, exported, kind, elem) ==
    [Name |-> name, Tag |-> tag, Anonymous |-> anonymous,
     Exported |-> exported, Kind |-> kind, Elem |-> elem]

\* testStructBase of the tests
testStructBase ==
    << Fld("ID", "", FALSE, TRUE, "int", <<>>),
       Fld("Username", "", FALSE, TRUE, "string", <<>>),
       Fld("DisplayName", "display_name", FALSE, TRUE, "string", <<>>),
       Fld("Email", "", FALSE, TRUE, "string", <<>>),
       Fld("Age", "", FALSE, TRUE, "int", <<>>),
       Fld("Password", "-", FALSE, TRUE, "slice", <<>>),
       Fld("IsAdmin", "is_admin", FALSE, TRUE, "bool", <<>>),
       Fld("sessionKey", "", FALSE, FALSE, "slice", <<>>) >>

\* testStruct of the tests: embeds testStructBase
testStruct ==
    << Fld("testStructBase", "", TRUE, FALSE, "struct", testStructBase),
       Fld("CreatedAt", "created_at", FALSE, TRUE, "struct", <<>>) >>

\* struct { *testStruct } of TestEmbeddedPointerField
embeddedPtrStruct ==
    << Fld("testStruct", "", TRUE, FALSE, "pointer", <<>>) >>

\* struct { testStruct; sqlz.Rows } of TestEmbeddedInterfaceField
embeddedIfaceStruct ==
    << Fld("testStruct", "", TRUE, FALSE, "struct", testStruct),
       Fld("Rows", "", TRUE, TRUE, "interface", <<>>) >>

\* struct { *testStruct `db:"-"`; ID int }: an embedded pointer the
\* exclusion marker hides from the resolver
excludedPtrStruct ==
    << Fld("testStruct", "-", TRUE, FALSE, "pointer", <<>>),
       Fld("ID", "", FALSE, TRUE, "int", <<>>) >>

TypeNames ==
    {"testStructBase", "testStruct", "embeddedPtrStruct", "embeddedIfaceStruct",
     "excludedPtrStruct"}

TypeOf(t) ==
    CASE t = "testStructBase" -> testStructBase
      [] t = "testStruct" -> testStruct
      [] t = "embeddedPtrStruct" -> embeddedPtrStruct
      [] t = "embeddedIfaceStruct" -> embeddedIfaceStruct
      [] t = "excludedPtrStruct" -> excludedPtrStruct

\* t.NumField() and t.Field(i) of a struct type t
NumField(t) == Len(t)
Field(t, i) == t[i + 1]

\* mutant: field names are used as they are declared
ToLowerIdentity(s) == s

\* strings.ToLower on the field names of the types of this model
ToLower(s) ==
    CASE s = "ID" -> "id"
      [] s = "Username" -> "username"
      [] s = "DisplayName" -> "displayname"
      [] s = "Email" -> "email"
      [] s = "Age" -> "age"
      [] s = "Password" -> "password"
      [] s = "IsAdmin" -> "isadmin"
      [] s = "CreatedAt" -> "createdat"
      [] s = "Rows" -> "rows"
      [] OTHER -> s

\* uint16(i)
U16(i) == i % 65536

(***************************************************************************)
(* Go maps as functions.                                                   *)
(***************************************************************************)
EmptyMap == [k \in {} |-> 0]

\* mutant: a key already present keeps its value
MapPutIfAbsent(m, k, v) == IF k \in DOMAIN m THEN m ELSE (k :> v) @@ m

MapPut(m, k, v) == (k :> v) @@ m

(***************************************************************************)
(* fillStructFieldIndex (cache.go): fills destIndex (the dest map) with    *)
(* column name -> field path for the fields of t from offset i on.  The    *)
(* result carries the panic of an embedded pointer.                        *)
(***************************************************************************)
\* mutant: the exclusion marker is read as a column name
skipNever(fieldName) == FALSE

\* if fieldName == "-" { continue // skip }
skip(fieldName) == fieldName = "-"

RECURSIVE fillFrom(_, _, _, _, _)
fillFrom(destIndex, t, cursor, prefix, i) ==
    IF destIndex.panic \/ i >= NumField(t) THEN destIndex
    ELSE LET field == Field(t, i)
             fieldName == field.Tag
         IN  IF skip(fieldName) THEN fillFrom(destIndex, t, cursor, prefix, i + 1)
             ELSE IF field.Anonymous THEN
                 IF field.Kind = "pointer"
                 THEN [destIndex EXCEPT !.panic = TRUE]
                 ELSE IF field.Kind = "struct"
                 THEN fillFrom(fillFrom(destIndex, field.Elem, Append(cursor, U16(i)), fieldName, 0),
                               t, cursor, prefix, i + 1)
                 ELSE fillFrom(destIndex, t, cursor, prefix, i + 1)
             ELSE IF ~field.Exported THEN fillFrom(destIndex, t, cursor, prefix, i + 1)
             ELSE LET name == IF fieldName = "" THEN ToLower(field.Name) ELSE fieldName
                      p == Append(cursor, U16(i))
                  IN  fillFrom([destIndex EXCEPT !.idx = MapPut(destIndex.idx, prefix \o name, p)],
                               t, cursor, prefix, i + 1)

fillStructFieldIndex(destIndex, t, cursor, prefix) == fillFrom(destIndex, t, cursor, prefix, 0)


(***************************************************************************)
(* Struct instances.  An instance of a struct type t is a function from Go *)
(* field offsets to values; an embedded struct field holds the instance of *)
(* its type, every other field an opaque value, 0 being the zero value.    *)
(***************************************************************************)
RECURSIVE Fill(_, _)
Fill(t, v) ==
    [i \in 0..(NumField(t) - 1) |->
        LET field == Field(t, i)
        IN  IF field.Anonymous /\ field.Kind = "struct" THEN Fill(field.Elem, v) ELSE v]

\* the zero value of every struct type
ZeroValues ==
    [testStructBase |-> Fill(testStructBase, 0),
     testStruct |-> Fill(testStruct, 0),
     embeddedPtrStruct |-> Fill(embeddedPtrStruct, 0),
     embeddedIfaceStruct |-> Fill(embeddedIfaceStruct, 0),
     excludedPtrStruct |-> Fill(excludedPtrStruct, 0)]

\* reflect.Zero / Value.SetZero
ZeroValue(t) == ZeroValues[t]

\* a caller's instance that already holds data
OldValue(t) == Fill(TypeOf(t), -1)

\* fieldByIndex (Scanner): the field of v reached through index
RECURSIVE fieldByIndex(_, _)
fieldByIndex(v, index) ==
    IF index = <<>> THEN v ELSE fieldByIndex(v[Head(index)], Tail(index))

\* assignment through the pointer fieldByIndex(v, index).Addr()
RECURSIVE StorePath(_, _, _)
StorePath(v, index, val) ==
    IF index = <<>> THEN val
    ELSE [v EXCEPT ![Head(index)] = StorePath(v[Head(index)], Tail(index), val)]

(***************************************************************************)
(* The program state.                                                      *)
(***************************************************************************)
VARIABLES
    dest,                  \* the dest argument of Scan: its reflect kinds
    IgnoreUnknownColumns,  \* Scanner.IgnoreUnknownColumns
    types,                 \* cache.types: the published map, or nil
    columns,               \* what rows.Columns() reported
    rows,                  \* the cursor: i rows yielded so far, stored err,
                           \* and the error a call on it returned (failed)
    calls,                 \* the calls made on the cursor, in order
    cancelled,             \* ctx.Done() is closed
    earlyCancel,           \* ctx was cancelled before the cursor yielded a row
    pc,                    \* position of the Scan call
    result,                \* what Scan returned (or the panic it raised)
    heap,                  \* struct instances reachable through pointers
    elemAddr,              \* the instance the scan targets point into
    destValues,            \* the scan targets mapFieldDest returned
    placeholder,           \* the discard target of mapFieldDest
    bound,                 \* rows.Scan calls that returned nil
    backing,               \* backing arrays of the slices
    destSlice,             \* slice header stored in *dest
    slice,                 \* the local slice header of scanSlice
    prior,                 \* what dest held when Scan was called
    chanCap,               \* capacity of the dest channel
    chanBuf,               \* its buffer
    chanClosed,            \* the channel is closed
    recvWaiting,           \* the consumer is blocked in a receive
    received,              \* records the consumer has received
    pending,               \* newElem of scanChan, offered to the channel
    callerClosed,          \* the caller ran close(records) after Scan
    closePanic,            \* that close found the channel already closed
    argT,                  \* fillStructFieldIndex called on its own: its t
    outDest,               \* and its dest map, filled once it has returned
    resolved,              \* fillStructFieldIndex has returned (or panicked)
    tc,                    \* Scanner.tc: types (address of the published map,
                           \* 0 for nil) and mu (the goroutine holding it, or 0)
    mapHeap,               \* the map[reflect.Type]structFieldIndex objects
    indexHeap,             \* the structFieldIndex objects
    goroutines,            \* the goroutines using the Scanner's cache
    started,               \* operations started on the cache so far
    history,               \* type, content, address of every index handed out
    published,             \* content of every map when it was stored in tc.types
    fills,                 \* runs of fillStructFieldIndex so far, by type
    lastPurge,             \* the index objects there were when the cache was
                           \* last purged, -1 while it never was
    null,                  \* a variable of type Null[string]: Some and Valid
    nullOp,                \* the last call made on it, and its argument
    ptr,                   \* what its last Ptr() returned
    nullCalls              \* calls made on it so far

\* fixed during a Scan call
callVars == << dest, IgnoreUnknownColumns, chanCap, prior >>
cursorVars == << columns, rows, calls >>
scanVars == << pc, result, heap, elemAddr, destValues, placeholder, bound >>
sliceVars == << backing, destSlice, slice >>
chanVars == << chanBuf, chanClosed, recvWaiting, received, pending >>
envVars == << cancelled, earlyCancel, callerClosed, closePanic >>

\* a Scan call
scannerVars == << callVars, types, cursorVars, scanVars, sliceVars, chanVars, envVars >>
\* a call of the resolver
resolverVars == << argT, outDest, resolved >>

\* the cache of a Scanner under concurrent use
cacheVars ==
    << tc, mapHeap, indexHeap, goroutines, started, history, published, fills, lastPurge >>

\* a Null[T] value and its use
nullVars == << null, nullOp, ptr, nullCalls >>

vars == << scannerVars, resolverVars, cacheVars, nullVars >>

(***************************************************************************)
(* Inputs.                                                                 *)
(***************************************************************************)
\* column names a cursor reports: known to both test types, known to
\* testStruct only, known to none
ColumnNames == {"id", "created_at", "order_id"}

RECURSIVE SeqsUpTo(_, _)
SeqsUpTo(S, n) ==
    IF n = 0 THEN {<<>>}
    ELSE LET shorter == SeqsUpTo(S, n - 1)
         IN  shorter \cup {Append(q, x) : q \in {r \in shorter : Len(r) = n - 1}, x \in S}

ColumnLists == SeqsUpTo(ColumnNames, MaxCols)

\* errors of the cursor's driver
CursorErrors == {"errIO", "errConv"}

\* prior length of a dest slice (prior content of a dest struct)
MaxPrior == 1

NonStruct == "int"

\* the destinations: dest kind, kind dest points to, element type after
\* unwrapping one pointer level
Dst(kind, elem, ptrElem, type) ==
    [kind |-> kind, elem |-> elem, ptrElem |-> ptrElem, type |-> type]

Dests ==
    {Dst("pointer", "struct", FALSE, t) : t \in TypeNames}
    \cup {Dst("pointer", "slice", b, t) :
             b \in BOOLEAN, t \in {"testStructBase", "testStruct", "embeddedPtrStruct", NonStruct}}
    \cup {Dst("chan", "", b, t) :
             b \in BOOLEAN, t \in {"testStructBase", "testStruct", "embeddedPtrStruct", NonStruct}}
    \cup {Dst("struct", "", FALSE, "testStruct"), Dst("pointer", "int", FALSE, NonStruct)}

IsRecord(d) == d.kind = "pointer" /\ d.elem = "struct"
IsSlice(d) == d.kind = "pointer" /\ d.elem = "slice"
IsChan(d) == d.kind = "chan"

\* Scan results
Res(kind, arg) == [kind |-> kind, arg |-> arg]
NoResult == Res("running", "")
Nil == Res("nil", "")
ErrNoRows == Res("sql.ErrNoRows", "")
Canceled == Res("context.Canceled", "")
\* mutant: a cursor error is replaced by one error of Scan's own
CursorErrOpaque(e) == Res("cursor", "errIO")

CursorErr(e) == Res("cursor", e)
MappingErr(column) == Res("sqlz: missing field mapping for column", column)
Panic(msg) == Res("panic", msg)

NoIndex == [panic |-> FALSE, idx |-> EmptyMap]
NilTypes == [nil |-> TRUE, m |-> EmptyMap]

(***************************************************************************)
(* cache.getStructFieldIndex (cache.go), run without interference: the     *)
(* fast path on a hit; on a miss the index is computed and a clone of the  *)
(* map holding it is published.  A panic of the resolver leaves the        *)
(* published map as it was.                                                *)
(***************************************************************************)
\* mutant: the index a panicking resolution leaves behind is published
getStructFieldIndexCachesFailure(ty, t) ==
    IF t \in DOMAIN ty.m
    THEN [types |-> ty, x |-> ty.m[t], panic |-> FALSE]
    ELSE LET filled == fillStructFieldIndex(NoIndex, TypeOf(t), <<>>, "")
         IN  [types |-> [nil |-> FALSE, m |-> MapPut(ty.m, t, filled.idx)],
              x |-> filled.idx, panic |-> filled.panic]

getStructFieldIndex(ty, t) ==
    IF t \in DOMAIN ty.m
    THEN [types |-> ty, x |-> ty.m[t], panic |-> FALSE]
    ELSE LET filled == fillStructFieldIndex(NoIndex, TypeOf(t), <<>>, "")
         IN  IF filled.panic
             THEN [types |-> ty, x |-> EmptyMap, panic |-> TRUE]
             ELSE [types |-> [nil |-> FALSE, m |-> MapPut(ty.m, t, filled.idx)],
                   x |-> filled.idx, panic |-> FALSE]

(***************************************************************************)
(* Scanner.mapFieldDest: the scan targets for the cursor's columns.        *)
(***************************************************************************)
\* a scan target: a pointer to the field at path, the placeholder, or the
\* nil a slot of make([]any, n) holds before it is assigned
FieldTarget(x) == [kind |-> "field", path |-> x]
PlaceholderTarget == [kind |-> "placeholder", path |-> <<>>]
NilTarget == [kind |-> "nil", path |-> <<>>]

\* mutant: a tolerated unknown column is bound to the field of column "id"
RECURSIVE mapFromIntoField(_, _, _, _, _)
mapFromIntoField(fieldIndex, cols, ignore, i, scanValues) ==
    IF i > Len(cols) THEN [scanValues |-> scanValues, err |-> Nil]
    ELSE LET column == cols[i]
         IN  IF column \in DOMAIN fieldIndex
             THEN mapFromIntoField(fieldIndex, cols, ignore, i + 1,
                          [scanValues EXCEPT ![i] = FieldTarget(fieldIndex[column])])
             ELSE IF ~ignore
             THEN [scanValues |-> <<>>, err |-> MappingErr(column)]
             ELSE mapFromIntoField(fieldIndex, cols, ignore, i + 1,
                          [scanValues EXCEPT ![i] = FieldTarget(fieldIndex["id"])])

\* the loop over the columns, from column i on
RECURSIVE mapFrom(_, _, _, _, _)
mapFrom(fieldIndex, cols, ignore, i, scanValues) ==
    IF i > Len(cols) THEN [scanValues |-> scanValues, err |-> Nil]
    ELSE LET column == cols[i]
         IN  IF column \in DOMAIN fieldIndex
             THEN mapFrom(fieldIndex, cols, ignore, i + 1,
                          [scanValues EXCEPT ![i] = FieldTarget(fieldIndex[column])])
             ELSE IF ~ignore
             THEN [scanValues |-> <<>>, err |-> MappingErr(column)]
             ELSE mapFrom(fieldIndex, cols, ignore, i + 1,
                          [scanValues EXCEPT ![i] = PlaceholderTarget])

\* mutant: unknown columns are tolerated whatever IgnoreUnknownColumns says
mapFieldDestTolerant(ty, ignore, t, cols, colErr) ==
    IF colErr # "nil"
    THEN [types |-> ty, scanValues |-> <<>>, err |-> CursorErr(colErr)]
    ELSE LET g == getStructFieldIndex(ty, t)
         IN  IF g.panic
             THEN [types |-> g.types, scanValues |-> <<>>,
                   err |-> Panic("cannot use embedded pointer in struct")]
             ELSE LET m == mapFrom(g.x, cols, TRUE, 1, [i \in 1..Len(cols) |-> NilTarget])
                  IN  [types |-> g.types, scanValues |-> m.scanValues, err |-> m.err]

\* mutant: the scan targets of unknown columns are left out of the list
mapFieldDestCompact(ty, ignore, t, cols, colErr) ==
    IF colErr # "nil"
    THEN [types |-> ty, scanValues |-> <<>>, err |-> CursorErr(colErr)]
    ELSE LET g == getStructFieldIndex(ty, t)
         IN  IF g.panic
             THEN [types |-> g.types, scanValues |-> <<>>,
                   err |-> Panic("cannot use embedded pointer in struct")]
             ELSE LET m == mapFrom(g.x, cols, ignore, 1, [i \in 1..Len(cols) |-> NilTarget])
                      IsField(tg) == tg.kind = "field"
                  IN  [types |-> g.types, scanValues |-> SelectSeq(m.scanValues, IsField),
                       err |-> m.err]

\* colErr is the error of rows.Columns(), "nil" for none
mapFieldDest(ty, ignore, t, cols, colErr) ==
    IF colErr # "nil"
    THEN [types |-> ty, scanValues |-> <<>>, err |-> CursorErr(colErr)]
    ELSE LET g == getStructFieldIndex(ty, t)
         IN  IF g.panic
             THEN [types |-> g.types, scanValues |-> <<>>,
                   err |-> Panic("cannot use embedded pointer in struct")]
             ELSE LET m == mapFrom(g.x, cols, ignore, 1, [i \in 1..Len(cols) |-> NilTarget])
                  IN  [types |-> g.types, scanValues |-> m.scanValues, err |-> m.err]

(***************************************************************************)
(* The cursor's positional bind, rows.Scan(dest...): column c of row r is  *)
(* stored through target c, for the first n targets.                       *)
(***************************************************************************)
\* the value of column position c in row r
RowValue(r, c) == 10 * r + c

RECURSIVE bindFrom(_, _, _, _, _)
bindFrom(st, targets, r, c, n) ==
    IF c > n THEN st
    ELSE LET tg == targets[c]
             next == IF tg.kind = "placeholder"
                     THEN [st EXCEPT !.ph = RowValue(r, c)]
                     ELSE [st EXCEPT !.v = StorePath(st.v, tg.path, RowValue(r, c))]
         IN  bindFrom(next, targets, r, c + 1, n)

bindRow(v, ph, targets, r, n) == bindFrom([v |-> v, ph |-> ph], targets, r, 1, n)

\* the bind accepts one pointer per column
Bindable(targets, cols) ==
    /\ Len(targets) = Len(cols)
    /\ \A c \in 1..Len(targets) : targets[c].kind # "nil"

(***************************************************************************)
(* reflect.Append: in place while the backing array has room, else into a  *)
(* grown copy of it.                                                       *)
(***************************************************************************)
Cap(bk, hdr) == IF hdr.arr = 0 THEN 0 ELSE Len(bk[hdr.arr])

reflectAppend(bk, hdr, x, zero) ==
    IF hdr.len < Cap(bk, hdr)
    THEN [backing |-> [bk EXCEPT ![hdr.arr][hdr.len + 1] = x],
          slice |-> [hdr EXCEPT !.len = hdr.len + 1]]
    ELSE LET old == IF hdr.arr = 0 THEN <<>> ELSE SubSeq(bk[hdr.arr], 1, hdr.len)
             newcap == IF hdr.len = 0 THEN 1 ELSE 2 * hdr.len
             grown == [j \in 1..newcap |->
                          IF j <= hdr.len THEN old[j] ELSE IF j = hdr.len + 1 THEN x ELSE zero]
         IN  [backing |-> Append(bk, grown),
              slice |-> [arr |-> Len(bk) + 1, len |-> hdr.len + 1]]


(***************************************************************************)
(* Initial state: a Scan call about to start, on a cursor that has not     *)
(* been advanced.                                                          *)
(***************************************************************************)
IsStructType(t) == t \in TypeNames

\* the element zero value of a slice of d's element type
ZeroElem(d) == IF d.ptrElem \/ ~IsStructType(d.type) THEN 0 ELSE ZeroValue(d.type)

\* what is left in the spare capacity of a caller's slice
StaleElem(d) == IF d.ptrElem \/ ~IsStructType(d.type) THEN 0 ELSE Fill(TypeOf(d.type), -2)

\* the states of the cache a Scan of element type t can find: never used,
\* or holding what earlier Scans published: the index of t, or, when t has
\* none, that of another type
CacheStates(t) ==
    {NilTypes} \cup
    (IF ~IsStructType(t) THEN {}
     ELSE IF fillStructFieldIndex(NoIndex, TypeOf(t), <<>>, "").panic
     THEN {getStructFieldIndex(NilTypes, "testStruct").types}
     ELSE {getStructFieldIndex(NilTypes, t).types})

\* no resolver call of its own is under way
ResolverIdle ==
    /\ argT = <<>>
    /\ outDest = NoIndex
    /\ resolved = FALSE

\* the zero value of Null[string], its null state, not used yet
NullIdle ==
    /\ null = [Some |-> "", Valid |-> FALSE]
    /\ nullOp = [op |-> "", arg |-> ""]
    /\ ptr = [nil |-> TRUE, val |-> ""]
    /\ nullCalls = 0

\* the goroutines that share the Scanner
MaxGoroutines == 2
Goroutines == 1..MaxGoroutines

\* a goroutine that is not in a call: it has not made one yet, or its Scan
\* has returned
IdleGoroutine ==
    [pc |-> "idle", op |-> "", t |-> "", types |-> 0, x |-> 0, panic |-> FALSE,
     scanValues |-> <<>>, locks |-> 0, hit |-> FALSE, mu |-> 0, purged |-> FALSE]

\* the zero value of the cache, used by nobody
CacheIdle ==
    /\ tc = [types |-> 0, mu |-> 0]
    /\ mapHeap = <<>>
    /\ indexHeap = <<>>
    /\ goroutines = [g \in Goroutines |-> IdleGoroutine]
    /\ started = 0
    /\ history = {}
    /\ published = EmptyMap
    /\ fills = EmptyMap
    /\ lastPurge = -1

Init ==
    /\ ResolverIdle
    /\ CacheIdle
    /\ NullIdle
    /\ dest \in Dests
    /\ IgnoreUnknownColumns \in BOOLEAN
    /\ types \in CacheStates(dest.type)
    /\ columns = <<>>
    /\ rows = [i |-> 0, err |-> "nil", failed |-> "nil"]
    /\ calls = <<>>
    /\ cancelled = FALSE
    /\ earlyCancel = FALSE
    /\ pc = "start"
    /\ result = NoResult
    /\ destValues = <<>>
    /\ placeholder = 0
    /\ bound = 0
    /\ slice = [arr |-> 0, len |-> 0]
    /\ chanBuf = <<>>
    /\ chanClosed = FALSE
    /\ recvWaiting = FALSE
    /\ received = <<>>
    /\ pending = 0
    /\ callerClosed = FALSE
    /\ closePanic = FALSE
    /\ chanCap \in (IF IsChan(dest) THEN 0..MaxChanCap ELSE {0})
    /\ \E len \in 0..MaxPrior, spare \in {0, 1} :
         IF IsRecord(dest)
         THEN /\ spare = 0
              /\ heap = << IF len = 0 THEN ZeroValue(dest.type) ELSE OldValue(dest.type) >>
              /\ elemAddr = 1
              /\ backing = <<>>
              /\ destSlice = [arr |-> 0, len |-> 0]
              /\ prior = [elems |-> <<>>, records |-> heap]
         ELSE IF IsSlice(dest) /\ IsStructType(dest.type)
         THEN /\ heap = IF dest.ptrElem THEN [j \in 1..len |-> OldValue(dest.type)] ELSE <<>>
              /\ elemAddr = 0
              /\ backing = << [j \in 1..(len + spare) |->
                                IF j > len THEN StaleElem(dest)
                                ELSE IF dest.ptrElem THEN j ELSE OldValue(dest.type)] >>
              /\ destSlice = [arr |-> 1, len |-> len]
              /\ prior = [elems |-> SubSeq(backing[1], 1, len),
                          records |-> [j \in 1..len |-> OldValue(dest.type)]]
         ELSE /\ len = 0
              /\ spare = 0
              /\ heap = <<>>
              /\ elemAddr = 0
              /\ backing = <<>>
              /\ destSlice = [arr |-> 0, len |-> 0]
              /\ prior = [elems |-> <<>>, records |-> <<>>]

(***************************************************************************)
(* Leaving and continuing a Scan call.                                     *)
(***************************************************************************)
\* mutant: scanChan closes the channel when it returns
ClosedOnReturnTrue(closed) == TRUE

\* whether returning from scanChan closes the channel: it does not
ClosedOnReturn(closed) == closed

Return(r) ==
    /\ pc' = "done"
    /\ result' = r
    /\ chanClosed' = IF IsChan(dest) THEN ClosedOnReturn(chanClosed) ELSE chanClosed

Goto(label) ==
    /\ pc' = label
    /\ result' = result
    /\ chanClosed' = chanClosed

(***************************************************************************)
(* Scanner.Scan up to its first cursor advance: the dispatch on the shape  *)
(* of dest, the scratch instance, and mapFieldDest.                        *)
(***************************************************************************)
\* mutant: mapFieldDest resets the instance it maps
mappedInstanceZeroed(h, addr) == [h EXCEPT ![addr] = ZeroValue(dest.type)]

\* the heap after mapFieldDest, which takes the addresses of fields of the
\* instance at addr and writes none
mappedInstance(h, addr) == h

\* mapFieldDest against the instance at addr of heap h; rows.Columns()
\* reports an error or a column list
MapInto(h, addr) ==
    \E colErr \in {"nil"} \cup CursorErrors, cols \in ColumnLists :
        LET m == mapFieldDest(types, IgnoreUnknownColumns, dest.type, cols, colErr)
        IN  /\ colErr # "nil" => cols = <<>>
            /\ columns' = cols
            /\ rows' = [rows EXCEPT !.failed = colErr]
            /\ calls' = Append(calls, "columns")
            /\ heap' = mappedInstance(h, addr)
            /\ elemAddr' = addr
            /\ types' = m.types
            /\ placeholder' = 0
            /\ IF m.err = Nil
               THEN /\ destValues' = m.scanValues
                    /\ Goto("next")
               ELSE /\ destValues' = destValues
                    /\ Return(m.err)

\* mutant: a wrong shape of dest is reported as a returned error
PanicOutAsError(msg) ==
    /\ Return(Res("error", msg))
    /\ UNCHANGED << types, columns, rows, calls, heap, elemAddr, destValues, placeholder >>

PanicOut(msg) ==
    /\ Return(Panic(msg))
    /\ UNCHANGED << types, columns, rows, calls, heap, elemAddr, destValues, placeholder >>

ScanStart ==
    /\ UNCHANGED << resolverVars, cacheVars, nullVars >>
    /\ pc = "start"
    /\ IF dest.kind = "chan"
       THEN \* scanChan
            IF ~IsStructType(dest.type)
            THEN PanicOut("dest chan of non-struct elements")
            ELSE MapInto(Append(heap, ZeroValue(dest.type)), Len(heap) + 1)
       ELSE IF dest.kind # "pointer"
       THEN PanicOut("dest must be a pointer or chan")
       ELSE IF dest.elem = "struct"
       THEN MapInto(heap, elemAddr)
       ELSE IF dest.elem = "slice"
       THEN \* scanSlice
            IF ~IsStructType(dest.type)
            THEN PanicOut("dest slice of non-struct elements")
            ELSE MapInto(Append(heap, ZeroValue(dest.type)), Len(heap) + 1)
       ELSE PanicOut("dest must point to a struct or slice")
    /\ slice' = destSlice
    /\ UNCHANGED << callVars, bound, backing, destSlice, chanBuf, recvWaiting,
                    received, pending, envVars >>

(***************************************************************************)
(* rows.Next(), and what Scan does when it reports no row: rows.Err()      *)
(* decides the result.  The cursor yields a next row (at most MaxRows of   *)
(* them), is exhausted, or fails, which stores the error in the cursor.    *)
(***************************************************************************)
\* mutant: the no-rows case of a Record scan returns nil
AfterLastRowNoSentinel(err) ==
    IF err # "nil" THEN CursorErr(err) ELSE Nil

\* Scan's return after rows.Next() returned false with stored error err
AfterLastRow(err) ==
    IF IsRecord(dest)
    THEN IF err # "nil" THEN CursorErr(err) ELSE ErrNoRows
    ELSE IF err # "nil" THEN CursorErr(err) ELSE Nil

\* mutant: the built slice is stored before the cursor's error is looked at
StoredSliceAlways(err) ==
    IF IsSlice(dest) THEN slice ELSE destSlice

\* scanSlice stores the built slice into *dest on success only
StoredSlice(err) ==
    IF IsSlice(dest) /\ err = "nil" THEN slice ELSE destSlice

\* mutant: the cursor's error is not asked for
noRowCallsWithoutErr(c) == Append(c, "advance:false")

\* the calls on the cursor when it has no further row: rows.Next() returns
\* false, then rows.Err()
noRowCalls(c) == c \o << "advance:false", "lastError" >>

Next_ ==
    /\ UNCHANGED << resolverVars, cacheVars, nullVars >>
    /\ pc = "next"
    /\ \/ /\ rows.i < MaxRows
          /\ rows' = [rows EXCEPT !.i = rows.i + 1]
          /\ calls' = Append(calls, "advance:true")
          /\ Goto("bind")
          /\ UNCHANGED destSlice
       \/ \E err \in {"nil"} \cup CursorErrors :
             /\ rows' = [rows EXCEPT !.err = err, !.failed = err]
             /\ calls' = noRowCalls(calls)
             /\ Return(AfterLastRow(err))
             /\ destSlice' = StoredSlice(err)
    /\ UNCHANGED << callVars, types, columns, heap, elemAddr, destValues, placeholder,
                    bound, backing, slice, chanBuf, recvWaiting, received, pending,
                    envVars >>

(***************************************************************************)
(* rows.Scan(destValues...) on the current row, and what Scan does with    *)
(* the bound row: return (Record), append and reset the scratch instance   *)
(* (Collection), or offer a new element to the channel (Stream).           *)
(***************************************************************************)
\* mutant: a pointer element points at the scratch instance itself
NewElemAlias(h, addr) ==
    IF dest.ptrElem
    THEN [heap |-> h, elem |-> addr]
    ELSE [heap |-> h, elem |-> h[addr]]

\* newElem of scanSlice and scanChan for the scratch instance at addr of h:
\* a pointer to a new copy, or the instance itself
NewElem(h, addr) ==
    IF dest.ptrElem
    THEN [heap |-> Append(h, h[addr]), elem |-> Len(h) + 1]
    ELSE [heap |-> h, elem |-> h[addr]]

\* mutant: the scratch instance keeps the row it was bound to
SetZeroSkipped(h, addr) == h

\* elem.SetZero()
SetZero(h, addr) == [h EXCEPT ![addr] = ZeroValue(dest.type)]

Bind ==
    /\ UNCHANGED << resolverVars, cacheVars, nullVars >>
    /\ pc = "bind"
    /\ calls' = Append(calls, "bindRow")
    /\ \/ \* the bind fails after storing the first n columns
          \E err \in CursorErrors, n \in 0..Len(destValues) :
             /\ n < Len(destValues) \/ n = 0
             /\ LET b == bindRow(heap[elemAddr], placeholder, destValues, rows.i, n)
                IN  /\ heap' = [heap EXCEPT ![elemAddr] = b.v]
                    /\ placeholder' = b.ph
             /\ rows' = [rows EXCEPT !.failed = err]
             /\ Return(CursorErr(err))
             /\ UNCHANGED << bound, backing, slice, pending >>
       \/ /\ Bindable(destValues, columns)
          /\ rows' = rows
          /\ bound' = bound + 1
          /\ LET b == bindRow(heap[elemAddr], placeholder, destValues, rows.i, Len(destValues))
                 h == [heap EXCEPT ![elemAddr] = b.v]
             IN  /\ placeholder' = b.ph
                 /\ IF IsRecord(dest)
                    THEN /\ heap' = h
                         /\ Return(Nil)
                         /\ UNCHANGED << backing, slice, pending >>
                    ELSE LET ne == NewElem(h, elemAddr)
                         IN  IF IsSlice(dest)
                             THEN LET a == reflectAppend(backing, slice, ne.elem, ZeroElem(dest))
                                  IN  /\ backing' = a.backing
                                      /\ slice' = a.slice
                                      /\ heap' = SetZero(ne.heap, elemAddr)
                                      /\ Goto("next")
                                      /\ UNCHANGED pending
                             ELSE /\ heap' = ne.heap
                                  /\ pending' = ne.elem
                                  /\ Goto("select")
                                  /\ UNCHANGED << backing, slice >>
    /\ UNCHANGED << callVars, types, columns, elemAddr, destValues, destSlice,
                    chanBuf, recvWaiting, received, envVars >>

(***************************************************************************)
(* reflect.Select of scanChan: the send of newElem raced against           *)
(* ctx.Done().  A case can be chosen when it is ready; when both are, the  *)
(* choice is arbitrary.                                                    *)
(***************************************************************************)
\* mutant: the channel never accepts a record
SendReadyNever == FALSE

\* the send case of the select can proceed
SendReady == recvWaiting \/ Len(chanBuf) < chanCap

\* mutant: the cancellation is reported as success
ctxErrNil(c) == Nil

\* ctx.Err()
ctxErr(c) == IF c THEN Canceled ELSE Nil

\* mutant: the chosen case is never taken for ctx.Done()
returnsAfterSelectNever(chosen, c) == FALSE

\* mutant: the context is looked at instead of the chosen case
returnsAfterSelectCtx(chosen, c) == c

\* scanChan returns after the select iff the ctx.Done() case was chosen
returnsAfterSelect(chosen, c) == chosen = 1

Select ==
    /\ UNCHANGED << resolverVars, cacheVars, nullVars >>
    /\ pc = "select"
    /\ \E chosen \in {0, 1} :
          /\ chosen = 0 => SendReady
          /\ chosen = 1 => cancelled
          /\ IF chosen = 1
             THEN UNCHANGED << chanBuf, received, recvWaiting >>
             ELSE IF recvWaiting
             THEN /\ received' = Append(received, pending)
                  /\ recvWaiting' = FALSE
                  /\ chanBuf' = chanBuf
             ELSE /\ chanBuf' = Append(chanBuf, pending)
                  /\ UNCHANGED << received, recvWaiting >>
          /\ IF returnsAfterSelect(chosen, cancelled)
             THEN /\ Return(ctxErr(cancelled))
                  /\ heap' = heap
             ELSE /\ Goto("next")
                  /\ heap' = SetZero(heap, elemAddr)
    /\ UNCHANGED << callVars, types, cursorVars, elemAddr, destValues, placeholder, bound,
                    sliceVars, pending, envVars >>

(***************************************************************************)
(* The environment of a Scan call: the owner of ctx (which scanChan alone  *)
(* reads), the consumer of the channel, and the caller closing the channel *)
(* after Scan returned.                                                    *)
(***************************************************************************)
Cancel ==
    /\ UNCHANGED << resolverVars, cacheVars, nullVars >>
    /\ IsChan(dest)
    /\ pc # "done"
    /\ ~cancelled
    /\ cancelled' = TRUE
    /\ earlyCancel' = (rows.i = 0)
    /\ UNCHANGED << callVars, types, cursorVars, scanVars, sliceVars, chanVars,
                    callerClosed, closePanic >>

Receive ==
    /\ UNCHANGED << resolverVars, cacheVars, nullVars >>
    /\ IsChan(dest)
    /\ IF chanBuf # <<>>
       THEN /\ received' = Append(received, Head(chanBuf))
            /\ chanBuf' = Tail(chanBuf)
            /\ recvWaiting' = recvWaiting
       ELSE /\ ~recvWaiting
            /\ ~chanClosed
            /\ recvWaiting' = TRUE
            /\ UNCHANGED << received, chanBuf >>
    /\ UNCHANGED << callVars, types, cursorVars, scanVars, sliceVars, chanClosed, pending,
                    envVars >>

CallerClose ==
    /\ UNCHANGED << resolverVars, cacheVars, nullVars >>
    /\ pc = "done"
    /\ IsChan(dest)
    /\ ~callerClosed
    /\ callerClosed' = TRUE
    /\ IF chanClosed
       THEN /\ closePanic' = TRUE
            /\ chanClosed' = chanClosed
       ELSE /\ closePanic' = closePanic
            /\ chanClosed' = TRUE
    /\ recvWaiting' = FALSE
    /\ UNCHANGED << callVars, types, cursorVars, scanVars, sliceVars, chanBuf, received,
                    pending, cancelled, earlyCancel >>

Next == ScanStart \/ Next_ \/ Bind \/ Select \/ Cancel \/ Receive \/ CallerClose

Spec == Init /\ [][Next]_vars

\* a Scan call into a chan testStructBase, on a Scanner with its default
\* settings that was not used before
StreamInit ==
    /\ Init
    /\ dest = Dst("chan", "", FALSE, "testStructBase")
    /\ ~IgnoreUnknownColumns
    /\ types = NilTypes

\* a Scan call into a channel whose goroutine keeps running and whose cursor
\* answers every call: Scan takes its next step whenever it can.  Nothing is
\* assumed of the consumer of the channel or of the owner of ctx.
StreamSpec ==
    /\ StreamInit /\ [][Next]_vars
    /\ WF_vars(ScanStart) /\ WF_vars(Next_) /\ WF_vars(Bind) /\ WF_vars(Select)

(***************************************************************************)
(* fillStructFieldIndex on its own: the resolver applied to struct types   *)
(* drawn from the types below, which cover every branch of its loop.       *)
(***************************************************************************)
\* most fields of a generated struct type
MaxFields == 2

\* the field names of a generated type, by position: exported, unexported
UpperNames == << "ID", "Age", "Email" >>
LowerNames == << "id", "age", "email" >>
\* the names of its embedded fields (the names of their types), by position
EmbedNames == << "Base", "Meta", "Audit" >>

\* db tags of plain fields: none, the exclusion marker, an override
LeafTags == {"", "-", "uid"}

\* the plain fields a generated type can have at position i
LeafAt(i) ==
    {Fld(IF e THEN UpperNames[i] ELSE LowerNames[i], tag, FALSE, e, "int", <<>>) :
        tag \in LeafTags, e \in BOOLEAN}

\* struct { ID int }
innermost == << Fld("ID", "", FALSE, TRUE, "int", <<>>) >>

\* the types a generated type embeds: one plain field, an excluded field
\* beside a plain one, one embedded struct
\* (with and without a prefix tag), one embedded pointer
InnerTypes ==
    { innermost, << Fld("ID", "uid", FALSE, TRUE, "int", <<>>) >>,
      << Fld("ID", "-", FALSE, TRUE, "int", <<>>), Fld("Age", "", FALSE, TRUE, "int", <<>>) >> }
    \cup { << Fld("Inner", tag, TRUE, TRUE, "struct", innermost) >> : tag \in {"", "b_"} }
    \cup { << Fld("Inner", "", TRUE, TRUE, "pointer", <<>>) >> }

\* the embedded fields a generated type can have at position i
EmbeddedAt(i) ==
    {Fld(EmbedNames[i], tag, TRUE, TRUE, "struct", e) : tag \in {"", "a_"}, e \in InnerTypes}
    \cup {Fld(EmbedNames[i], "-", TRUE, TRUE, "struct", innermost)}
    \cup {Fld(EmbedNames[i], tag, TRUE, TRUE, "pointer", <<>>) : tag \in {"", "-"}}
    \cup {Fld("Rows", "", TRUE, TRUE, "interface", <<>>)}

RECURSIVE TypesOfLen(_)
TypesOfLen(n) ==
    IF n = 0 THEN {<<>>}
    ELSE {Append(q, f) : q \in TypesOfLen(n - 1), f \in LeafAt(n) \cup EmbeddedAt(n)}

GenTypes == UNION {TypesOfLen(n) : n \in 0..MaxFields}

\* no Scan call is under way
ScannerIdle ==
    /\ dest = Dst("pointer", "struct", FALSE, "testStruct")
    /\ IgnoreUnknownColumns = FALSE
    /\ types = NilTypes
    /\ columns = <<>>
    /\ rows = [i |-> 0, err |-> "nil", failed |-> "nil"]
    /\ calls = <<>>
    /\ cancelled = FALSE
    /\ earlyCancel = FALSE
    /\ pc = "idle"
    /\ result = NoResult
    /\ heap = <<>>
    /\ elemAddr = 0
    /\ destValues = <<>>
    /\ placeholder = 0
    /\ bound = 0
    /\ backing = <<>>
    /\ destSlice = [arr |-> 0, len |-> 0]
    /\ slice = [arr |-> 0, len |-> 0]
    /\ prior = [elems |-> <<>>, records |-> <<>>]
    /\ chanCap = 0
    /\ chanBuf = <<>>
    /\ chanClosed = FALSE
    /\ recvWaiting = FALSE
    /\ received = <<>>
    /\ pending = 0
    /\ callerClosed = FALSE
    /\ closePanic = FALSE

ResolverInit ==
    /\ ScannerIdle
    /\ CacheIdle
    /\ NullIdle
    /\ argT \in GenTypes
    /\ outDest = NoIndex
    /\ resolved = FALSE

\* x := make(structFieldIndex, t.NumField()); fillStructFieldIndex(x, t, nil, "")
Resolve ==
    /\ ~resolved
    /\ outDest' = fillStructFieldIndex(NoIndex, argT, <<>>, "")
    /\ resolved' = TRUE
    /\ UNCHANGED << argT, scannerVars, cacheVars, nullVars >>

ResolverNext == Resolve

ResolverSpec == ResolverInit /\ [][ResolverNext]_vars

(***************************************************************************)
(* The cache of one Scanner under concurrent use: goroutines calling       *)
(* cache.getStructFieldIndex, Scanner.PurgeCache and the package-level     *)
(* PurgeCache.  A step is one statement, or a run of statements no other   *)
(* goroutine can tell apart.                                               *)
(***************************************************************************)
\* operations started on the cache, over all goroutines
MaxCalls == 3

\* the types resolved
CacheTypes == {"testStructBase", "testStruct", "embeddedPtrStruct"}

\* the columns of the Scan that uses a captured index
CacheColumns == << "id", "created_at" >>

\* cache.load: the published map, the nil map when there is none
load(c, maps) == IF c.types = 0 THEN EmptyMap ELSE maps[c.types]

\* mutant: a lookup finds whatever entry the map holds
lookupAny(m, t) ==
    IF DOMAIN m = {} THEN [ok |-> FALSE, x |-> 0]
    ELSE [ok |-> TRUE, x |-> m[CHOOSE k \in DOMAIN m : TRUE]]

\* x, ok := m[t]
lookup(m, t) ==
    IF t \in DOMAIN m THEN [ok |-> TRUE, x |-> m[t]] ELSE [ok |-> FALSE, x |-> 0]

\* mutant: the fast path is never taken
fastPathNever(ok) == FALSE

\* getStructFieldIndex returns from its first lookup iff that found the type
fastPath(ok) == ok

\* mutant: the lookup under the mutex is taken for a miss
recheckNever(ok) == FALSE

\* getStructFieldIndex returns from its second lookup, under the mutex, iff
\* that found the type
recheck(ok) == ok

\* mutant: a published map is extended in place
cloneTypesInPlace(maps, a) ==
    IF a = 0 THEN [maps |-> Append(maps, EmptyMap), addr |-> Len(maps) + 1]
    ELSE [maps |-> maps, addr |-> a]

\* mutant: the map to publish starts empty
cloneTypesEmpty(maps, a) == [maps |-> Append(maps, EmptyMap), addr |-> Len(maps) + 1]

\* types = maps.Clone(types), or make(...) for the nil map: a new map object
cloneTypes(maps, a) ==
    [maps |-> Append(maps, IF a = 0 THEN EmptyMap ELSE maps[a]), addr |-> Len(maps) + 1]

\* mutant: the purge empties the indices of the published map as well
purgedIndicesCleared(indices, maps, c) ==
    [a \in 1..Len(indices) |->
        IF c.types # 0 /\ \E t \in DOMAIN maps[c.types] : maps[c.types][t] = a
        THEN EmptyMap ELSE indices[a]]

\* the structFieldIndex objects after cache.purge: as before
purgedIndices(indices, maps, c) == indices

\* mutant: the mutex stays locked
unlockNever(c) == c

\* c.mu.Unlock()
unlock(c) == [c EXCEPT !.mu = 0]

\* mutant: a panic leaves the mutex locked
unlockOnPanicSkipped(c) == c

\* the deferred c.mu.Unlock() runs when fillStructFieldIndex panics
unlockOnPanic(c) == unlock(c)

\* g may start an operation
CanCall(g) == goroutines[g].pc \in {"idle", "done"} /\ started < MaxCalls

\* the index at x is handed to a caller of getStructFieldIndex(t)
HandOut(t, x, indices) == history' = history \cup {<< t, indices[x], x >>}

\* what a map object holds, through its index objects
Content(maps, indices, a) ==
    [m |-> maps[a], idx |-> [t \in DOMAIN maps[a] |-> indices[maps[a][t]]]]

CacheInit ==
    /\ ScannerIdle
    /\ ResolverIdle
    /\ CacheIdle
    /\ NullIdle

\* getStructFieldIndex, lines 26-28: the first lookup, in the published map
FastPath(g) ==
    /\ CanCall(g)
    /\ started' = started + 1
    /\ \E t \in CacheTypes :
          LET l == lookup(load(tc, mapHeap), t)
              call == [IdleGoroutine EXCEPT !.op = "getStructFieldIndex", !.t = t,
                                            !.hit = t \in DOMAIN load(tc, mapHeap),
                                            !.mu = IF t \in DOMAIN load(tc, mapHeap)
                                                   THEN tc.mu ELSE 0]
          IN  IF fastPath(l.ok)
              THEN /\ goroutines' =
                         [goroutines EXCEPT ![g] = [call EXCEPT !.pc = "captured", !.x = l.x]]
                   /\ HandOut(t, l.x, indexHeap)
              ELSE /\ goroutines' = [goroutines EXCEPT ![g] = [call EXCEPT !.pc = "lock"]]
                   /\ history' = history
    /\ UNCHANGED << tc, mapHeap, indexHeap, published, scannerVars, resolverVars, nullVars >>
    /\ UNCHANGED << fills, lastPurge >>

\* c.mu.Lock()
Lock(g) ==
    /\ goroutines[g].pc = "lock"
    /\ tc.mu = 0
    /\ tc' = [tc EXCEPT !.mu = g]
    /\ goroutines' = [goroutines EXCEPT ![g].pc = "locked", ![g].locks = @ + 1]
    /\ UNCHANGED << mapHeap, indexHeap, started, history, published, scannerVars,
                    resolverVars, nullVars >>
    /\ UNCHANGED << fills, lastPurge >>

\* lines 31-39: the second lookup, under the mutex; on a miss the map to
\* publish and the index to fill are made
SlowPath(g) ==
    /\ goroutines[g].pc = "locked"
    /\ LET l == lookup(load(tc, mapHeap), goroutines[g].t)
           c == cloneTypes(mapHeap, tc.types)
       IN  IF recheck(l.ok)
           THEN /\ goroutines' = [goroutines EXCEPT ![g].pc = "captured", ![g].x = l.x]
                /\ tc' = unlock(tc)
                /\ HandOut(goroutines[g].t, l.x, indexHeap)
                /\ UNCHANGED << mapHeap, indexHeap >>
           ELSE /\ mapHeap' = c.maps
                /\ indexHeap' = Append(indexHeap, EmptyMap)
                /\ goroutines' = [goroutines EXCEPT ![g].pc = "fill", ![g].types = c.addr,
                                                   ![g].x = Len(indexHeap) + 1]
                /\ UNCHANGED << tc, history >>
    /\ UNCHANGED << started, published, scannerVars, resolverVars, nullVars >>
    /\ UNCHANGED << fills, lastPurge >>

\* line 40: fillStructFieldIndex(x, t, nil, ""); its panic runs the deferred
\* c.mu.Unlock()
FillIndex(g) ==
    /\ goroutines[g].pc = "fill"
    /\ LET x == goroutines[g].x
           filled == fillStructFieldIndex([panic |-> FALSE, idx |-> indexHeap[x]],
                                          TypeOf(goroutines[g].t), <<>>, "")
       IN  /\ indexHeap' = [indexHeap EXCEPT ![x] = filled.idx]
           /\ IF filled.panic
              THEN /\ goroutines' = [goroutines EXCEPT ![g].pc = "done", ![g].panic = TRUE]
                   /\ tc' = unlockOnPanic(tc)
              ELSE /\ goroutines' = [goroutines EXCEPT ![g].pc = "assign"]
                   /\ tc' = tc
    /\ UNCHANGED << mapHeap, started, history, published, scannerVars, resolverVars, nullVars >>
    /\ fills' = MapPut(fills, goroutines[g].t,
                       (IF goroutines[g].t \in DOMAIN fills THEN fills[goroutines[g].t] ELSE 0) + 1)
    /\ lastPurge' = lastPurge

\* line 41: types[t] = x
AssignEntry(g) ==
    /\ goroutines[g].pc = "assign"
    /\ mapHeap' = [mapHeap EXCEPT ![goroutines[g].types] =
                       MapPut(@, goroutines[g].t, goroutines[g].x)]
    /\ goroutines' = [goroutines EXCEPT ![g].pc = "store"]
    /\ UNCHANGED << tc, indexHeap, started, history, published, scannerVars, resolverVars, nullVars >>
    /\ UNCHANGED << fills, lastPurge >>

\* lines 42-43: c.types.Store(&types); return x, with the deferred Unlock
StoreTypes(g) ==
    /\ goroutines[g].pc = "store"
    /\ tc' = unlock([tc EXCEPT !.types = goroutines[g].types])
    /\ published' = IF goroutines[g].types \in DOMAIN published THEN published
                    ELSE MapPut(published, goroutines[g].types,
                                Content(mapHeap, indexHeap, goroutines[g].types))
    /\ goroutines' = [goroutines EXCEPT ![g].pc = "captured", ![g].types = 0]
    /\ HandOut(goroutines[g].t, goroutines[g].x, indexHeap)
    /\ UNCHANGED << mapHeap, indexHeap, started, scannerVars, resolverVars, nullVars >>
    /\ UNCHANGED << fills, lastPurge >>

\* the caller of getStructFieldIndex goes on with the index it got: the loop
\* of mapFieldDest over the columns; scanChan then enters its loop
UseIndex(g) ==
    /\ goroutines[g].pc = "captured"
    /\ LET cols == CacheColumns
           m == mapFrom(indexHeap[goroutines[g].x], cols, TRUE, 1,
                        [i \in 1..Len(cols) |-> NilTarget])
       IN  goroutines' = [goroutines EXCEPT ![g].pc = "next", ![g].scanValues = m.scanValues]
    /\ UNCHANGED << tc, mapHeap, indexHeap, started, history, published, scannerVars,
                    resolverVars, nullVars >>
    /\ UNCHANGED << fills, lastPurge >>

\* scanChan, lines 151-160 (and 167): rows.Next() reports no row and
\* scanChan returns; or it yields a row and rows.Scan(destValues...) fails,
\* and scanChan returns, or binds it.  The cursor is the goroutine's own.
Advance(g) ==
    /\ goroutines[g].pc = "next"
    /\ \E row, ok \in BOOLEAN :
          goroutines' = [goroutines EXCEPT ![g] = IF row /\ ok THEN [@ EXCEPT !.pc = "select"]
                                                  ELSE IdleGoroutine]
    /\ UNCHANGED << tc, mapHeap, indexHeap, started, history, published, scannerVars,
                    resolverVars, nullVars >>
    /\ UNCHANGED << fills, lastPurge >>

\* lines 161-165: reflect.Select returns, a receiver having taken the record
\* or ctx being cancelled; with neither, the goroutine stays here
Send(g) ==
    /\ goroutines[g].pc = "select"
    /\ \E chosen \in {0, 1} :
          goroutines' = [goroutines EXCEPT ![g] = IF chosen = 1 THEN IdleGoroutine
                                                  ELSE [@ EXCEPT !.pc = "next"]]
    /\ UNCHANGED << tc, mapHeap, indexHeap, started, history, published, scannerVars,
                    resolverVars, nullVars >>
    /\ UNCHANGED << fills, lastPurge >>

\* mutant: purge does not wait for the mutex
purgeCanLockAlways(c) == TRUE

\* c.mu.Lock() of purge returns once the mutex is free
purgeCanLock(c) == c.mu = 0

\* Scanner.PurgeCache, cache.purge line 47: c.mu.Lock()
PurgeLock(g) ==
    /\ CanCall(g)
    /\ purgeCanLock(tc)
    /\ started' = started + 1
    /\ tc' = [tc EXCEPT !.mu = g]
    /\ goroutines' = [goroutines EXCEPT ![g] =
                         [IdleGoroutine EXCEPT !.op = "Scanner.PurgeCache", !.pc = "purge",
                                               !.locks = 1]]
    /\ UNCHANGED << mapHeap, indexHeap, history, published, scannerVars, resolverVars, nullVars >>
    /\ UNCHANGED << fills, lastPurge >>

\* cache.purge lines 48-49: c.types.Store(nil); c.mu.Unlock()
PurgeStore(g) ==
    /\ goroutines[g].pc = "purge"
    /\ tc' = unlock([tc EXCEPT !.types = 0])
    /\ indexHeap' = purgedIndices(indexHeap, mapHeap, tc)
    /\ goroutines' =
          [h \in Goroutines |->
              IF h = g THEN [goroutines[g] EXCEPT !.pc = "done"]
              ELSE IF goroutines[h].pc \in {"captured", "next", "select"}
              THEN [goroutines[h] EXCEPT !.purged = TRUE]
              ELSE goroutines[h]]
    /\ UNCHANGED << mapHeap, started, history, published, scannerVars, resolverVars, nullVars >>
    /\ lastPurge' = Len(indexHeap)
    /\ fills' = fills

\* the package-level PurgeCache, the Scanner being the global one: a no-op
PurgeCache(g) ==
    /\ CanCall(g)
    /\ started' = started + 1
    /\ goroutines' = [goroutines EXCEPT ![g] =
                         [IdleGoroutine EXCEPT !.op = "PurgeCache", !.pc = "done"]]
    /\ UNCHANGED << tc, mapHeap, indexHeap, history, published, scannerVars, resolverVars, nullVars >>
    /\ UNCHANGED << fills, lastPurge >>

CacheNext ==
    \E g \in Goroutines :
        \/ FastPath(g)
        \/ Lock(g)
        \/ SlowPath(g)
        \/ FillIndex(g)
        \/ AssignEntry(g)
        \/ StoreTypes(g)
        \/ UseIndex(g)
        \/ Advance(g)
        \/ Send(g)
        \/ PurgeLock(g)
        \/ PurgeStore(g)
        \/ PurgeCache(g)

CacheSpec == CacheInit /\ [][CacheNext]_vars

(***************************************************************************)
(* Null[T] (null.go), for T = string: the calls NewNull, Set, Invalidate,  *)
(* Scan and Ptr on one variable of type Null[string].                      *)
(***************************************************************************)
\* calls made on the variable
MaxNullCalls == 4

\* the strings used; "" is the zero value of string
Strings == {"", "a", "b"}

\* the driver values Null.Scan is called with: nil, a string, an int64
DriverValues ==
    {[type |-> "nil", v |-> ""]} \cup {[type |-> "string", v |-> x] : x \in Strings}
    \cup {[type |-> "int64", v |-> "7"]}

ZeroString == ""

NewNull(value) == [Some |-> value, Valid |-> TRUE]

\* n.Some, n.Valid = value, true
Set(nv, value) == [Some |-> value, Valid |-> TRUE]

\* n.Some, n.Valid = zero, false
Invalidate(nv) == [Some |-> ZeroString, Valid |-> FALSE]

\* Null.Scan: *string is no sql.Scanner, so a non-nil value goes through the
\* type assertion value.(T), which yields the zero value and false for a
\* value that is no string
NullScan(nv, value) ==
    IF value.type = "nil" THEN [n |-> Invalidate(nv), err |-> FALSE]
    ELSE IF value.type = "string"
    THEN [n |-> [Some |-> value.v, Valid |-> TRUE], err |-> FALSE]
    ELSE [n |-> [Some |-> ZeroString, Valid |-> FALSE], err |-> TRUE]

\* mutant: Ptr returns a pointer whether n is valid or not
PtrOfSomeAlways(nv) == [nil |-> FALSE, val |-> nv.Some]

\* Null.Ptr: nil, or the address of the Some of its receiver, a copy of n
Ptr(nv) == IF ~nv.Valid THEN [nil |-> TRUE, val |-> ZeroString] ELSE [nil |-> FALSE, val |-> nv.Some]

NullInit ==
    /\ ScannerIdle
    /\ ResolverIdle
    /\ CacheIdle
    /\ NullIdle

CanCallNull == nullCalls < MaxNullCalls

\* null = NewNull(value)
CallNewNull ==
    /\ CanCallNull
    /\ \E value \in Strings :
          /\ null' = NewNull(value)
          /\ nullOp' = [op |-> "NewNull", arg |-> value]
    /\ nullCalls' = nullCalls + 1
    /\ UNCHANGED << ptr, scannerVars, resolverVars, cacheVars >>

\* null.Set(value)
CallSet ==
    /\ CanCallNull
    /\ \E value \in Strings :
          /\ null' = Set(null, value)
          /\ nullOp' = [op |-> "Set", arg |-> value]
    /\ nullCalls' = nullCalls + 1
    /\ UNCHANGED << ptr, scannerVars, resolverVars, cacheVars >>

\* null.Invalidate()
CallInvalidate ==
    /\ CanCallNull
    /\ null' = Invalidate(null)
    /\ nullOp' = [op |-> "Invalidate", arg |-> ""]
    /\ nullCalls' = nullCalls + 1
    /\ UNCHANGED << ptr, scannerVars, resolverVars, cacheVars >>

\* null.Scan(value)
CallScan ==
    /\ CanCallNull
    /\ \E value \in DriverValues :
          /\ null' = NullScan(null, value).n
          /\ nullOp' = [op |-> "Scan", arg |-> value.type]
    /\ nullCalls' = nullCalls + 1
    /\ UNCHANGED << ptr, scannerVars, resolverVars, cacheVars >>

\* null.Ptr()
CallPtr ==
    /\ CanCallNull
    /\ ptr' = Ptr(null)
    /\ nullOp' = [op |-> "Ptr", arg |-> ""]
    /\ nullCalls' = nullCalls + 1
    /\ UNCHANGED << null, scannerVars, resolverVars, cacheVars >>

NullNext == CallNewNull \/ CallSet \/ CallInvalidate \/ CallScan \/ CallPtr

NullSpec == NullInit /\ [][NullNext]_vars

(***************************************************************************)
(* What the properties below speak of.                                     *)
(***************************************************************************)
\* the records the channel has accepted, in the order it accepted them
Delivered == received \o chanBuf

\* the struct instance an element of a slice or channel stands for
Deref(e) == IF dest.ptrElem THEN heap[e] ELSE e

\* the elements visible through *dest
DestElems == [j \in 1..destSlice.len |-> backing[destSlice.arr][j]]

\* the paths of all fields of an instance of t that hold a value
RECURSIVE LeafPathsOf(_)
LeafPathsOf(t) ==
    UNION { LET field == Field(t, i)
            IN  IF field.Anonymous /\ field.Kind = "struct"
                THEN {<<i>> \o q : q \in LeafPathsOf(field.Elem)}
                ELSE {<<i>>}
          : i \in 0..(NumField(t) - 1) }

LeafPathsTable ==
    [testStructBase |-> LeafPathsOf(testStructBase),
     testStruct |-> LeafPathsOf(testStruct),
     embeddedPtrStruct |-> LeafPathsOf(embeddedPtrStruct),
     embeddedIfaceStruct |-> LeafPathsOf(embeddedIfaceStruct),
     excludedPtrStruct |-> LeafPathsOf(excludedPtrStruct)]

LeafPaths(t) == LeafPathsTable[t]

\* what the resolver makes of every struct type
Resolved ==
    [testStructBase |-> fillStructFieldIndex(NoIndex, testStructBase, <<>>, ""),
     testStruct |-> fillStructFieldIndex(NoIndex, testStruct, <<>>, ""),
     embeddedPtrStruct |-> fillStructFieldIndex(NoIndex, embeddedPtrStruct, <<>>, ""),
     embeddedIfaceStruct |-> fillStructFieldIndex(NoIndex, embeddedIfaceStruct, <<>>, ""),
     excludedPtrStruct |-> fillStructFieldIndex(NoIndex, excludedPtrStruct, <<>>, "")]

Resolvable(t) == IsStructType(t) /\ ~Resolved[t].panic

\* the field index of t
IndexOf(t) == Resolved[t].idx

\* the column positions bound to the field at path p
ColumnsOf(p) ==
    {c \in 1..Len(columns) :
        columns[c] \in DOMAIN IndexOf(dest.type) /\ IndexOf(dest.type)[columns[c]] = p}

\* the column positions no field is bound to
UnknownColumns == {c \in 1..Len(columns) : columns[c] \notin DOMAIN IndexOf(dest.type)}

Max(S) == CHOOSE x \in S : \A y \in S : y <= x
Min(S) == CHOOSE x \in S : \A y \in S : x <= y

\* rec holds row r decoded over base: every field a column is bound to holds
\* the row's value of (the last of) its columns, every other field is as in base
RowDecoded(rec, r, base) ==
    \A p \in LeafPaths(dest.type) :
        fieldByIndex(rec, p) =
            IF ColumnsOf(p) # {} THEN RowValue(r, Max(ColumnsOf(p))) ELSE fieldByIndex(base, p)

Returned == pc = "done"

\* the first advance of the cursor reported no row
FirstAdvanceFalse == Len(calls) >= 2 /\ calls[2] = "advance:false"

(***************************************************************************)
(* Properties of Scan.                                                     *)
(***************************************************************************)

\* C1: a Record scan whose first cursor advance reports no row returns the
\* cursor's stored error if there is one and sql.ErrNoRows otherwise; it never
\* returns nil, never calls bindRow and leaves the destination struct alone.
C1_RecordNoRows ==
    (IsRecord(dest) /\ Returned /\ FirstAdvanceFalse) =>
        /\ result = IF rows.err # "nil" THEN CursorErr(rows.err) ELSE ErrNoRows
        /\ result # Nil
        /\ \A k \in 1..Len(calls) : calls[k] # "bindRow"
        /\ bound = 0
        /\ heap = prior.records

C1_Witness ==
    /\ IsRecord(dest) /\ Returned /\ FirstAdvanceFalse
    /\ rows.err = "nil" /\ result = ErrNoRows

\* C2 as stated: a Collection scan of N rows that returns nil leaves the
\* destination with length N, element i being row i decoded.
C2_LengthIsN ==
    (IsSlice(dest) /\ Returned /\ result = Nil) =>
        /\ destSlice.len = rows.i
        /\ \A r \in 1..rows.i : RowDecoded(Deref(DestElems[r]), r, ZeroValue(dest.type))

\* C2, amended: a Collection scan of N rows that returns nil has appended to
\* the K elements the destination held: its length is K + N, its first K
\* elements are the ones it held, and element K + i is row i decoded.
C2_AppendsNRows ==
    (IsSlice(dest) /\ Returned /\ result = Nil) =>
        LET K == Len(prior.elems)
        IN  /\ destSlice.len = K + rows.i
            /\ bound = rows.i
            /\ \A j \in 1..K : /\ DestElems[j] = prior.elems[j]
                               /\ Deref(DestElems[j]) = prior.records[j]
            /\ \A r \in 1..rows.i :
                  RowDecoded(Deref(DestElems[K + r]), r, ZeroValue(dest.type))

C2_Witness ==
    /\ IsSlice(dest) /\ Returned /\ result = Nil
    /\ dest.ptrElem /\ Len(prior.elems) = 1 /\ rows.i = 2 /\ destSlice.len = 3
    /\ columns = << "id", "created_at" >> /\ dest.type = "testStruct"

\* C3: until a Collection scan returns nil, and for good when it returns an
\* error, the destination is as it was before the call: same length, same
\* elements, the same records behind them.
C3_SliceUntouchedOnError ==
    (IsSlice(dest) /\ ~(Returned /\ result = Nil)) =>
        /\ destSlice.len = Len(prior.elems)
        /\ DestElems = prior.elems
        /\ \A j \in 1..destSlice.len : Deref(DestElems[j]) = prior.records[j]

C3_Witness ==
    /\ IsSlice(dest) /\ Returned /\ result.kind = "cursor"
    /\ bound >= 1 /\ Len(prior.elems) = 1
    /\ slice.arr = destSlice.arr /\ slice.len > destSlice.len

\* C4: in a Stream scan the records the channel has accepted are at every
\* moment the first rows of the cursor, decoded, in cursor order; a scan of N
\* rows that returns nil has delivered exactly N records.
C4_StreamPrefixInOrder ==
    (IsChan(dest) /\ Resolvable(dest.type)) =>
        /\ Len(Delivered) <= rows.i
        /\ \A r \in 1..Len(Delivered) :
              RowDecoded(Deref(Delivered[r]), r, ZeroValue(dest.type))
        /\ (Returned /\ result = Nil) => Len(Delivered) = rows.i

C4_Witness ==
    /\ IsChan(dest) /\ Returned /\ result = Nil /\ ~cancelled
    /\ rows.i = 2 /\ Len(received) = 2
    /\ columns = << "id", "created_at" >> /\ dest.type = "testStruct"

\* C5 as stated: a Stream scan whose context was cancelled before the cursor
\* yielded a row, over a cursor that then yields a row and reports no error,
\* returns context.Canceled and delivers no record.
C5_EarlyCancelWins ==
    (IsChan(dest) /\ earlyCancel /\ Returned /\ rows.i >= 1 /\ result \in {Nil, Canceled}) =>
        /\ result = Canceled
        /\ Len(Delivered) = 0

\* C5, amended: a Stream scan whose context was cancelled before the cursor
\* yielded a row, and whose channel cannot accept the first record when it is
\* offered (no room in the buffer, no receiver waiting), returns
\* context.Canceled and delivers no record.
C5_EarlyCancelWinsBlockedSend ==
    [][ ( /\ pc = "select" /\ bound = 1 /\ earlyCancel
          /\ ~recvWaiting /\ Len(chanBuf) >= chanCap
          /\ pc' # pc )
        => ( /\ pc' = "done"
             /\ result' = Canceled
             /\ Len(Delivered') = 0 ) ]_vars

C5_Witness ==
    /\ IsChan(dest) /\ Returned /\ result = Canceled /\ earlyCancel
    /\ bound = 1 /\ chanCap = 0 /\ Len(Delivered) = 0 /\ ~recvWaiting

C7_ScanNeverCloses ==
    /\ chanClosed => (callerClosed /\ Returned)
    /\ ~closePanic

C7_Witness ==
    /\ IsChan(dest) /\ Returned /\ result = Canceled
    /\ callerClosed /\ chanClosed /\ ~closePanic

\* C8: with IgnoreUnknownColumns false, once the cursor has reported a column
\* list holding a column the field index of the destination type has no entry
\* for, Scan has returned the mapping error naming the first such column.
C8_MappingErrorNamesFirstUnknown ==
    (~IgnoreUnknownColumns /\ Resolvable(dest.type) /\ UnknownColumns # {}) =>
        /\ Returned
        /\ result = MappingErr(columns[Min(UnknownColumns)])

C8_Witness ==
    /\ ~IgnoreUnknownColumns /\ IsChan(dest) /\ dest.type = "testStructBase"
    /\ columns = << "order_id", "created_at" >>
    /\ result = MappingErr("order_id")

\* C9: with IgnoreUnknownColumns true Scan never returns a mapping error, and
\* a Record scan that bound its row over unknown columns has stored each known
\* column's value in the column's field, left every other field as it was, and
\* passed the unknown columns' values to the placeholder.
C9_UnknownColumnsDiscarded ==
    IgnoreUnknownColumns =>
        /\ result.kind # MappingErr("").kind
        /\ (IsRecord(dest) /\ Returned /\ result = Nil) =>
              /\ RowDecoded(heap[1], 1, prior.records[1])
              /\ UnknownColumns # {} => placeholder = RowValue(1, Max(UnknownColumns))

C9_Witness ==
    /\ IgnoreUnknownColumns /\ IsRecord(dest) /\ Returned /\ result = Nil
    /\ columns = << "order_id", "id" >>
    /\ prior.records[1] = OldValue(dest.type)

\* C10: once mapFieldDest has returned without error, the scan targets are one
\* per column of the cursor, target i being the pointer to the field column i
\* is bound to, or the placeholder when there is none.
C10_OneTargetPerColumn ==
    (Len(calls) >= 2) =>
        /\ Len(destValues) = Len(columns)
        /\ \A c \in 1..Len(columns) :
              destValues[c] =
                  IF columns[c] \in DOMAIN IndexOf(dest.type)
                  THEN FieldTarget(IndexOf(dest.type)[columns[c]])
                  ELSE PlaceholderTarget

C10_Witness ==
    /\ pc = "bind"
    /\ columns = << "order_id", "order_id" >>
    /\ destValues = << PlaceholderTarget, PlaceholderTarget >>

(***************************************************************************)
(* Properties of the resolver.                                             *)
(***************************************************************************)
\* the lower-cased field names
Lower ==
    [ID |-> "id", Age |-> "age", Email |-> "email",
     id |-> "id", age |-> "age", email |-> "email"]

\* the column name a plain field declares: its db tag, else its lower-cased name
NameOf(f) == IF f.Tag # "" THEN f.Tag ELSE Lower[f.Name]

\* t has no embedded fields
Flat(t) == \A i \in 1..Len(t) : ~t[i].Anonymous

\* the offsets of the exported, non-excluded plain fields of t
Listed(t) == {i \in 0..(Len(t) - 1) : ~t[i + 1].Anonymous /\ t[i + 1].Exported /\ t[i + 1].Tag # "-"}

\* the column names those fields declare
ListedNames(t) == {NameOf(t[i + 1]) : i \in Listed(t)}

\* C11 as stated: the index of a struct type with no embedded fields has
\* exactly one entry per exported, non-excluded field, under the field's tag
\* or lower-cased name, holding the field's offset, and no other entry.
C11_OneEntryPerField ==
    (resolved /\ Flat(argT)) =>
        /\ ~outDest.panic
        /\ DOMAIN outDest.idx = ListedNames(argT)
        /\ Cardinality(DOMAIN outDest.idx) = Cardinality(Listed(argT))
        /\ \A i \in Listed(argT) : outDest.idx[NameOf(argT[i + 1])] = << i >>

\* C11, amended: the index of a struct type with no embedded fields has
\* exactly one entry per column name its exported, non-excluded fields
\* declare, and no other entry; the entry holds the offset of the last field
\* declaring the name, so that fields of pairwise distinct names have one
\* entry each, holding their own offset.
C11_OneEntryPerName ==
    (resolved /\ Flat(argT)) =>
        /\ ~outDest.panic
        /\ DOMAIN outDest.idx = ListedNames(argT)
        /\ \A k \in DOMAIN outDest.idx :
              outDest.idx[k] = << Max({i \in Listed(argT) : NameOf(argT[i + 1]) = k}) >>
        /\ (Cardinality(ListedNames(argT)) = Cardinality(Listed(argT))) =>
              \A i \in Listed(argT) : outDest.idx[NameOf(argT[i + 1])] = << i >>

C11_Witness ==
    /\ resolved /\ Flat(argT) /\ Len(argT) = 2
    /\ argT[1].Exported /\ argT[1].Tag = "uid"
    /\ argT[2].Exported /\ argT[2].Tag = ""
    /\ outDest.idx = ("uid" :> << 0 >>) @@ ("age" :> << 1 >>)

\* the fields of t the resolver is to list, each under the name made of the
\* tags of the embedded fields it is reached through (outermost first) and
\* the name it declares, with the offsets leading to it
RECURSIVE Reached(_, _, _)
Reached(t, cursor, prefix) ==
    UNION { LET f == t[i + 1]
            IN  IF f.Tag = "-" THEN {}
                ELSE IF f.Anonymous
                THEN IF f.Kind = "struct"
                     THEN Reached(f.Elem, Append(cursor, i), prefix \o f.Tag)
                     ELSE {}
                ELSE IF f.Exported
                THEN {[name |-> prefix \o NameOf(f), path |-> Append(cursor, i)]}
                ELSE {}
          : i \in 0..(Len(t) - 1) }

\* no two of those fields are to be listed under the same name
DistinctNames(t) ==
    \A r1, r2 \in Reached(t, <<>>, "") : r1.name = r2.name => r1 = r2

\* C12 as stated (for types no two fields of which claim one name): a field
\* reached through embedded fields is listed under its name with the tags of
\* all those embedded fields prepended, outermost first, with the path of
\* offsets through them.
C12_PrefixesPrepended ==
    (resolved /\ ~outDest.panic /\ DistinctNames(argT)) =>
        \A r \in Reached(argT, <<>>, "") :
            Len(r.path) >= 2 =>
                /\ r.name \in DOMAIN outDest.idx
                /\ outDest.idx[r.name] = r.path

(***************************************************************************)
(* Fatal errors of Scan.                                                   *)
(***************************************************************************)
\* dest has one of the three shapes Scan accepts
ValidShape(d) == (IsRecord(d) \/ IsSlice(d) \/ IsChan(d)) /\ IsStructType(d.type)

\* t declares an embedded pointer field, directly or in an embedded struct
RECURSIVE ContainsEmbeddedPointer(_)
ContainsEmbeddedPointer(t) ==
    \E i \in 1..Len(t) :
        /\ t[i].Anonymous
        /\ \/ t[i].Kind = "pointer"
           \/ t[i].Kind = "struct" /\ ContainsEmbeddedPointer(t[i].Elem)

\* ... and no db:"-" hides it
RECURSIVE ReachesEmbeddedPointer(_)
ReachesEmbeddedPointer(t) ==
    \E i \in 1..Len(t) :
        /\ t[i].Anonymous /\ t[i].Tag # "-"
        /\ \/ t[i].Kind = "pointer"
           \/ t[i].Kind = "struct" /\ ReachesEmbeddedPointer(t[i].Elem)

EmbeddedPointerTypes ==
    [testStructBase |->
        << ContainsEmbeddedPointer(testStructBase), ReachesEmbeddedPointer(testStructBase) >>,
     testStruct |->
        << ContainsEmbeddedPointer(testStruct), ReachesEmbeddedPointer(testStruct) >>,
     embeddedPtrStruct |->
        << ContainsEmbeddedPointer(embeddedPtrStruct), ReachesEmbeddedPointer(embeddedPtrStruct) >>,
     embeddedIfaceStruct |->
        << ContainsEmbeddedPointer(embeddedIfaceStruct),
           ReachesEmbeddedPointer(embeddedIfaceStruct) >>,
     excludedPtrStruct |->
        << ContainsEmbeddedPointer(excludedPtrStruct), ReachesEmbeddedPointer(excludedPtrStruct) >>]

EmbeddedPointerPanic == Panic("cannot use embedded pointer in struct")

\* C13 as stated: a Scan into a struct type that contains an embedded
\* pointer field always panics with "cannot use embedded pointer in struct".
C13_AlwaysPanics ==
    (ValidShape(dest) /\ EmbeddedPointerTypes[dest.type][1] /\ Returned) =>
        result = EmbeddedPointerPanic

\* C13, amended: a Scan into a struct type with an embedded pointer field
\* that no db:"-" hides panics with "cannot use embedded pointer in struct"
\* once the cursor has reported its columns, and returns the cursor's error
\* when it could not; either way it has not advanced the cursor, has bound
\* nothing, and the cache holds no index for the type, before and after.
C13_PanicsOnceColumnsKnown ==
    (ValidShape(dest) /\ EmbeddedPointerTypes[dest.type][2]) =>
        /\ dest.type \notin DOMAIN types.m
        /\ Returned =>
              /\ calls = << "columns" >>
              /\ bound = 0
              /\ \/ result = EmbeddedPointerPanic
                 \/ result.kind = "cursor" /\ columns = <<>>

C13_Witness ==
    /\ IsChan(dest) /\ dest.type = "embeddedPtrStruct" /\ Returned
    /\ result = EmbeddedPointerPanic
    /\ types # NilTypes /\ columns = << "id", "created_at" >>

(***************************************************************************)
(* Properties of the cache.                                                *)
(***************************************************************************)
\* g holds an index getStructFieldIndex gave it
Holds(g) ==
    /\ goroutines[g].op = "getStructFieldIndex"
    /\ goroutines[g].pc \in {"captured", "next", "select", "done"}
    /\ ~goroutines[g].panic

\* the scan targets mapFieldDest makes of the index of t
TargetsOf(t) ==
    mapFrom(IndexOf(t), CacheColumns, TRUE, 1,
            [i \in 1..Len(CacheColumns) |-> NilTarget]).scanValues

\* C14: every index handed out for a type, by whichever goroutine, on a hit
\* or a miss, before or after a purge, has the content the resolver gives
\* for the type: all indices of one type have identical contents.
C14_SameContentEveryTime ==
    /\ \A h \in history : h[2] = IndexOf(h[1])
    /\ \A h1, h2 \in history : h1[1] = h2[1] => h1[2] = h2[2]
    /\ \A g1, g2 \in Goroutines :
          (Holds(g1) /\ Holds(g2) /\ goroutines[g1].t = goroutines[g2].t) =>
              indexHeap[goroutines[g1].x] = indexHeap[goroutines[g2].x]

C14_Witness ==
    /\ Holds(1) /\ Holds(2)
    /\ goroutines[1].t = "testStruct" /\ goroutines[2].t = "testStruct"
    /\ goroutines[1].x # goroutines[2].x
    /\ goroutines[1].purged

\* C15: every map ever stored in tc.types holds what it held when it was
\* stored, through index objects that hold what they held then, each the
\* complete index of its type; tc.types is nil or such a map.
C15_SnapshotsImmutable ==
    /\ tc.types # 0 => tc.types \in DOMAIN published
    /\ \A a \in DOMAIN published :
          /\ Content(mapHeap, indexHeap, a) = published[a]
          /\ \A t \in DOMAIN mapHeap[a] : indexHeap[mapHeap[a][t]] = IndexOf(t)

C15_Witness ==
    /\ goroutines[1].pc = "store" /\ goroutines[1].types = 2
    /\ tc.types = 1
    /\ Cardinality(DOMAIN mapHeap[1]) = 1 /\ Cardinality(DOMAIN mapHeap[2]) = 2
    /\ Holds(2) /\ goroutines[2].hit

\* C16: a getStructFieldIndex call that finds its type in the published map
\* has its index without having locked the mutex, whoever holds it.
C16_FastPathTakesNoLock ==
    \A g \in Goroutines :
        (goroutines[g].op = "getStructFieldIndex" /\ goroutines[g].hit) =>
            /\ goroutines[g].locks = 0
            /\ Holds(g)
            /\ goroutines[g].x # 0

C16_Witness ==
    /\ goroutines[1].hit /\ goroutines[1].pc = "captured" /\ goroutines[1].mu = 2
    /\ tc.mu = 2 /\ goroutines[2].pc = "fill" /\ goroutines[2].t # goroutines[1].t

\* C17: a Scanner.PurgeCache leaves the cache with no entries and changes
\* no map and no index; whatever purges run, an index a goroutine holds has
\* the content of the index of its type, and the scan targets made of it are
\* those of that index.
C17_PurgeLeavesCapturedIndex ==
    [][ /\ \A g \in Goroutines :
              (goroutines[g].pc = "purge" /\ goroutines'[g].pc = "done") =>
                  /\ load(tc', mapHeap') = EmptyMap
                  /\ mapHeap' = mapHeap
                  /\ indexHeap' = indexHeap
        /\ \A g \in Goroutines :
              Holds(g)' =>
                  /\ indexHeap'[goroutines'[g].x] = IndexOf(goroutines'[g].t)
                  /\ goroutines'[g].pc # "captured" =>
                        goroutines'[g].scanValues = TargetsOf(goroutines'[g].t)
      ]_vars

C17_Witness ==
    /\ Holds(1) /\ goroutines[1].pc = "next" /\ goroutines[1].purged
    /\ goroutines[1].t = "testStruct"
    /\ goroutines[1].scanValues = << FieldTarget(<< 0, 0 >>), FieldTarget(<< 1 >>) >>
    /\ goroutines[2].op = "Scanner.PurgeCache" /\ goroutines[2].pc = "done"
    /\ tc.types = 0

\* C18 as stated: when the package-level PurgeCache returns, no other
\* operation on the cache being under way, the cache of the global Scanner
\* holds no entries.
C18_PurgeCacheClears ==
    [][ \A g \in Goroutines :
            ( /\ goroutines'[g] # goroutines[g]
              /\ goroutines'[g].op = "PurgeCache"
              /\ \A h \in Goroutines \ {g} : goroutines[h].pc \in {"idle", "done"} )
            => load(tc', mapHeap') = EmptyMap
      ]_vars

\* the panic Scan raises for a dest of wrong shape
ShapePanic(d) ==
    IF d.kind = "chan"
    THEN Panic("dest chan of non-struct elements")
    ELSE IF d.kind # "pointer"
    THEN Panic("dest must be a pointer or chan")
    ELSE IF d.elem = "slice"
    THEN Panic("dest slice of non-struct elements")
    ELSE Panic("dest must point to a struct or slice")

\* the errors Scan returns
ReturnedErrors ==
    {ErrNoRows.kind, Canceled.kind, CursorErr("").kind, MappingErr("").kind}

\* C19: a Scan of a dest of wrong shape (neither pointer nor channel, a
\* pointer to neither struct nor slice, a slice or channel whose elements are
\* not structs after unwrapping one pointer) has panicked, without a call on
\* the cursor; a Scan of a dest of right shape has returned nil or one of the
\* errors (no rows, cancellation, cursor error, mapping error), and has
\* panicked only over an embedded pointer.
C19_WrongShapePanics ==
    Returned =>
        IF ValidShape(dest)
        THEN \/ result = Nil
             \/ result.kind \in ReturnedErrors
             \/ result = EmbeddedPointerPanic /\ EmbeddedPointerTypes[dest.type][2]
        ELSE /\ result = ShapePanic(dest)
             /\ calls = <<>>
             /\ bound = 0

C19_Witness ==
    /\ dest = Dst("pointer", "slice", TRUE, NonStruct)
    /\ Returned
    /\ result = Panic("dest slice of non-struct elements")

\* the number of calls of op on the cursor
Count(ops) == Cardinality({k \in 1..Len(calls) : calls[k] \in ops})

\* C20: the calls on the cursor follow one protocol: columns() first and
\* once; bindRow() right after every advance() that returned true, and
\* nowhere else; lastError() only right after an advance() that returned
\* false.  A Collection or Stream scan of N rows that returns nil has made 1
\* columns(), N+1 advance(), N bindRow() and 1 lastError() calls; a Record
\* scan that found a row has made 1 advance() and 1 bindRow().
C20_CursorProtocol ==
    /\ \A k \in 1..Len(calls) :
          /\ (calls[k] = "columns") <=> (k = 1)
          /\ calls[k] = "bindRow" => calls[k - 1] = "advance:true"
          /\ calls[k] = "advance:true" =>
                IF k = Len(calls) THEN pc = "bind" ELSE calls[k + 1] = "bindRow"
          /\ calls[k] = "lastError" => calls[k - 1] = "advance:false"
    /\ (Returned /\ ValidShape(dest)) => Count({"columns"}) = 1
    /\ (Returned /\ result = Nil /\ (IsSlice(dest) \/ IsChan(dest))) =>
          /\ Count({"columns"}) = 1
          /\ Count({"advance:true", "advance:false"}) = rows.i + 1
          /\ Count({"bindRow"}) = rows.i
          /\ Count({"lastError"}) = 1
    /\ (Returned /\ IsRecord(dest) /\ rows.i >= 1) =>
          /\ Count({"advance:true", "advance:false"}) = 1
          /\ Count({"bindRow"}) = 1
          /\ Count({"lastError"}) = 0

C20_Witness ==
    /\ IsChan(dest) /\ Returned /\ result = Nil /\ rows.i = 2
    /\ calls = << "columns", "advance:true", "bindRow", "advance:true", "bindRow",
                  "advance:false", "lastError" >>

(***************************************************************************)
(* Error propagation.                                                      *)
(***************************************************************************)
\* C21: once columns() or bindRow() has returned an error, or lastError() a
\* non-nil one after advance() returned false, Scan has returned, with that
\* very error, the failing call being its last call on the cursor; no call
\* on the cursor and no send follows: the channel has accepted the rows bound
\* before and nothing since.
C21_CursorErrorsPropagate ==
    [][ rows'.failed # "nil" =>
          /\ pc' = "done"
          /\ result' = [kind |-> "cursor", arg |-> rows'.failed]
          /\ calls'[Len(calls')] \in {"columns", "bindRow", "lastError"}
          /\ IsChan(dest) => Len(Delivered') = bound'
          /\ rows.failed # "nil" =>
                /\ calls' = calls
                /\ rows' = rows
                /\ result' = result
                /\ Delivered' = Delivered
                /\ bound' = bound
      ]_vars

C21_Witness ==
    /\ IsChan(dest) /\ Returned /\ result = CursorErr("errConv")
    /\ rows.failed = "errConv" /\ rows.err = "nil"
    /\ calls = << "columns", "advance:true", "bindRow", "advance:true", "bindRow" >>
    /\ bound = 1 /\ Len(received) = 1 /\ chanBuf = <<>>

(***************************************************************************)
(* The mutex and the steps of a Scan that can block.                       *)
(***************************************************************************)
\* g is at a cursor advance, a positional bind or a channel send
AtCursorOrSend(g) == goroutines[g].pc \in {"next", "select"}

\* g is inside a critical section of the cache: at a step no other
\* goroutine and no channel can hold up
InCriticalSection(g) == goroutines[g].pc \in {"locked", "fill", "assign", "store", "purge"}

\* C22: a goroutine at a cursor advance, a bind or a channel send does not
\* own the cache mutex; whoever owns it is inside getStructFieldIndex or
\* purge, at a step that waits for nothing, so that a Scan staying at its
\* send forever holds up no lookup, resolution or purge of another goroutine.
C22_NoLockAcrossCursorOrSend ==
    /\ \A g \in Goroutines : AtCursorOrSend(g) => tc.mu # g
    /\ tc.mu # 0 => InCriticalSection(tc.mu)
    /\ \A g \in Goroutines : InCriticalSection(g) => tc.mu = g

C22_Witness ==
    /\ goroutines[1].pc = "select" /\ goroutines[1].locks = 1
    /\ goroutines[2].pc = "purge" /\ tc.mu = 2

(***************************************************************************)
(* Termination of a Stream scan.                                           *)
(***************************************************************************)
\* Scan waits at its send: no receiver, no room in the buffer, ctx not
\* cancelled
BlockedAtSend == pc = "select" /\ ~SendReady /\ ~cancelled

\* C23: a Stream scan returns if the consumer keeps receiving what it is
\* offered, and it returns once the context is cancelled; a Scan that has
\* not returned is time and again waiting at a send nobody receives, with
\* the context not cancelled: it waits for nothing else.
C23_StreamScanReturns ==
    /\ WF_vars(Receive) => <>Returned
    /\ cancelled ~> Returned
    /\ []<>(Returned \/ BlockedAtSend)

\* the records of both rows went through an unbuffered channel, each to a
\* waiting receiver, and Scan returned
C23_Witness ==
    /\ IsChan(dest) /\ Returned /\ result = Nil
    /\ chanCap = 0 /\ bound = 2 /\ Len(received) = 2 /\ ~cancelled /\ ~callerClosed

(***************************************************************************)
(* Properties of Null[T].                                                  *)
(***************************************************************************)
\* C24: after Set(v) or NewNull(v), null is valid and its Some is v; after
\* Invalidate() or Scan(nil), null is not valid and its Some is the zero value;
\* after a Ptr(), whatever calls came before, the pointer returned is nil
\* exactly if null is not valid, and else points at a value equal to null.Some.
C24_NullStates ==
    /\ nullOp.op \in {"Set", "NewNull"} => (null.Valid /\ null.Some = nullOp.arg)
    /\ (nullOp.op = "Invalidate" \/ (nullOp.op = "Scan" /\ nullOp.arg = "nil")) =>
          (~null.Valid /\ null.Some = "")
    /\ nullOp.op = "Ptr" =>
          /\ ptr.nil <=> ~null.Valid
          /\ ~ptr.nil => ptr.val = null.Some

C24_Witness ==
    /\ nullCalls = 3 /\ nullOp.op = "Ptr"
    /\ null = [Some |-> "a", Valid |-> TRUE]
    /\ ptr = [nil |-> FALSE, val |-> "a"]

(***************************************************************************)
(* Concurrent writers of the cache.                                        *)
(***************************************************************************)
\* the cache was never purged
NoPurge == lastPurge = -1

\* runs of the resolver for t
Fills(t) == IF t \in DOMAIN fills THEN fills[t] ELSE 0

\* C25: while no purge has run, however many goroutines resolve a type at
\* the same time, the resolver has run at most once for a type it resolves,
\* and exactly once for a type whose index was handed out; every map
\* published added one type, so no type had two maps published for it; and
\* all callers for one type were handed the same index object.
C25_ResolvedOnce ==
    NoPurge =>
        /\ \A t \in CacheTypes : Resolvable(t) => Fills(t) <= 1
        /\ \A h \in history : Fills(h[1]) = 1
        /\ Cardinality(DOMAIN published) = Cardinality(DOMAIN load(tc, mapHeap))
        /\ \A h1, h2 \in history : h1[1] = h2[1] => h1[3] = h2[3]
        /\ \A g1, g2 \in Goroutines :
              (Holds(g1) /\ Holds(g2) /\ goroutines[g1].t = goroutines[g2].t) =>
                  goroutines[g1].x = goroutines[g2].x

\* both goroutines missed testStruct in the published map and locked the
\* mutex for it; they hold one index, filled once
C25_Witness ==
    /\ NoPurge
    /\ Holds(1) /\ Holds(2)
    /\ goroutines[1].t = "testStruct" /\ goroutines[2].t = "testStruct"
    /\ goroutines[1].locks = 1 /\ goroutines[2].locks = 1
    /\ goroutines[1].x = goroutines[2].x
    /\ Fills("testStruct") = 1

\* the types of the published map
CachedTypes(c, maps) == DOMAIN load(c, maps)

\* no goroutine is in a getStructFieldIndex call
AllReturned ==
    \A g \in Goroutines : goroutines[g].pc \notin {"lock", "locked", "fill", "assign", "store"}

\* C26: while no purge has run, a step never takes a type out of the
\* published map and never changes the index a type has in it; the map holds
\* every type whose index was handed out, with that index; so once all
\* resolutions have returned it holds every type resolved.
C26_NoInsertionLost ==
    [][ NoPurge' =>
            /\ CachedTypes(tc, mapHeap) \subseteq CachedTypes(tc', mapHeap')
            /\ \A t \in CachedTypes(tc, mapHeap) :
                  load(tc', mapHeap')[t] = load(tc, mapHeap)[t]
            /\ \A h \in history' :
                  /\ h[1] \in CachedTypes(tc', mapHeap')
                  /\ load(tc', mapHeap')[h[1]] = h[3]
            /\ AllReturned' =>
                  \A t \in DOMAIN fills' : Resolvable(t) => t \in CachedTypes(tc', mapHeap')
      ]_vars

\* two goroutines resolved two types at the same time, the second writer
\* cloning the map the first one published; the map holds both
C26_Witness ==
    /\ NoPurge /\ AllReturned
    /\ CachedTypes(tc, mapHeap) = {"testStructBase", "testStruct"}
    /\ goroutines[1].t = "testStructBase" /\ goroutines[2].t = "testStruct"
    /\ Holds(1) /\ Holds(2)
    /\ goroutines[1].locks = 1 /\ goroutines[2].locks = 1

\* g is in the write section of getStructFieldIndex
InWriteSection(g) == goroutines[g].pc \in {"locked", "fill", "assign", "store"}

\* C27: no write section of getStructFieldIndex is under way while purge
\* holds the mutex; purge leaves the cache empty, and empty it stays until a
\* getStructFieldIndex call stores a map; every index in the cache was made,
\* by the write section that installed it, after the last purge.
C27_PurgeNotUndone ==
    [][ /\ \A g \in Goroutines :
              goroutines'[g].pc = "purge" =>
                  \A h \in Goroutines : ~InWriteSection(h)'
        /\ \A g \in Goroutines :
              (goroutines[g].pc = "purge" /\ goroutines'[g].pc = "done") =>
                  /\ CachedTypes(tc', mapHeap') = {}
                  /\ lastPurge' = Len(indexHeap')
        /\ (CachedTypes(tc, mapHeap) = {} /\ CachedTypes(tc', mapHeap') # {}) =>
              \E g \in Goroutines :
                  /\ goroutines[g].pc = "store" /\ goroutines'[g].pc = "captured"
                  /\ CachedTypes(tc', mapHeap') = {goroutines[g].t}
        /\ \A t \in CachedTypes(tc', mapHeap') : load(tc', mapHeap')[t] > lastPurge'
      ]_vars

\* a resolution, a purge, and a resolution that put the type back, with an
\* index made after the purge
C27_Witness ==
    /\ lastPurge = 1
    /\ CachedTypes(tc, mapHeap) = {"testStruct"}
    /\ load(tc, mapHeap)["testStruct"] = 2
    /\ Holds(1) /\ goroutines[1].x = 2

\* C28: when the resolver panics over an embedded pointer, the goroutine
\* leaves getStructFieldIndex with the mutex released and the published map
\* as it was, with the maps and indices reachable from it; no map ever
\* published holds the failing type; and a goroutine that is in no call does
\* not own the mutex, so that the calls of the others go on.
C28_PanicReleasesMutex ==
    [][ /\ \A g \in Goroutines :
              (goroutines[g].pc = "fill" /\ goroutines'[g].panic) =>
                  /\ goroutines'[g].pc = "done"
                  /\ tc'.mu = 0
                  /\ tc'.types = tc.types
                  /\ published' = published
                  /\ \A a \in DOMAIN published :
                        Content(mapHeap', indexHeap', a) = Content(mapHeap, indexHeap, a)
        /\ \A t \in CacheTypes :
              ~Resolvable(t) =>
                  /\ t \notin CachedTypes(tc', mapHeap')
                  /\ \A a \in DOMAIN published' : t \notin DOMAIN mapHeap'[a]
        /\ \A g \in Goroutines : goroutines'[g].pc \in {"idle", "done"} => tc'.mu # g
      ]_vars

\* after the panic of one goroutine another type was resolved and the cache
\* was purged
C28_Witness ==
    /\ goroutines[1].panic /\ goroutines[1].pc = "done"
    /\ Fills("embeddedPtrStruct") = 1 /\ Fills("testStruct") = 1
    /\ lastPurge = 2 /\ tc = [types |-> 0, mu |-> 0]
    /\ goroutines[2].op = "Scanner.PurgeCache" /\ goroutines[2].pc = "done"

(***************************************************************************)
(* Frame of a failed mapping, and the scratch instance.                    *)
(***************************************************************************)
\* C29: a Scan that has returned a mapping error has called columns() on the
\* cursor and nothing else: no advance, no bind; the destination struct or
\* slice is as it was before the call, with the records behind it, and the
\* channel has been offered and has accepted nothing.
C29_MappingErrorTouchesNothing ==
    (Returned /\ result.kind = MappingErr("").kind) =>
        /\ calls = << "columns" >>
        /\ rows.i = 0
        /\ bound = 0
        /\ IsRecord(dest) => heap = prior.records
        /\ IsSlice(dest) =>
              /\ destSlice.len = Len(prior.elems)
              /\ DestElems = prior.elems
              /\ \A j \in 1..destSlice.len : Deref(DestElems[j]) = prior.records[j]
        /\ IsChan(dest) => (Delivered = <<>> /\ pending = 0)

C29_Witness ==
    /\ IsRecord(dest) /\ Returned /\ result = MappingErr("order_id")
    /\ columns = << "id", "order_id" >>
    /\ prior.records[1] = OldValue(dest.type) /\ heap[1] = OldValue(dest.type)

\* the elements Scan has made of the rows so far, in row order: those it
\* appended to its slice, or those the channel accepted and the one on offer
ProducedElems ==
    IF IsSlice(dest)
    THEN [k \in 1..(slice.len - Len(prior.elems)) |->
             backing[slice.arr][Len(prior.elems) + k]]
    ELSE IF IsChan(dest)
    THEN Delivered \o (IF pc = "select" THEN << pending >> ELSE <<>>)
    ELSE <<>>

\* the records behind them
ProducedRecords == [k \in 1..Len(ProducedElems) |-> Deref(ProducedElems[k])]

\* every record made is its row decoded over the zero value
RowsDecodedAlone ==
    \A k \in 1..Len(ProducedRecords) :
        RowDecoded(ProducedRecords[k], k, ZeroValue(dest.type))

\* pointer elements point at instances of their own
OwnedInstances ==
    dest.ptrElem =>
        \A j, k \in 1..Len(ProducedElems) :
            /\ ProducedElems[k] # elemAddr
            /\ j # k => ProducedElems[j] # ProducedElems[k]

\* the scratch instance is zero when the cursor is advanced
ScratchReset == pc = "next" => heap[elemAddr] = ZeroValue(dest.type)

\* C30: in a Collection or Stream scan the record made of row k is row k
\* decoded over the zero value, whatever the rows before it held; a pointer
\* element points at an instance of its own, not at the scratch instance;
\* the scratch instance is zero whenever the cursor is advanced; and no
\* step changes a record already made.
C30_RowsBecomeOwnedRecords ==
    [][ ((IsSlice(dest) \/ IsChan(dest)) /\ Resolvable(dest.type)) =>
          /\ RowsDecodedAlone'
          /\ OwnedInstances'
          /\ ScratchReset'
          /\ \A k \in 1..Len(ProducedRecords) :
                /\ k <= Len(ProducedRecords') => ProducedRecords'[k] = ProducedRecords[k]
                /\ k > Len(ProducedRecords') => (k = Len(ProducedRecords) /\ pc = "select")
      ]_vars

\* the second row was bound, over columns that leave fields unbound, after
\* the first record was appended through a pointer
C30_Witness ==
    /\ IsSlice(dest) /\ dest.ptrElem /\ dest.type = "testStruct"
    /\ columns = << "created_at" >> /\ pc = "next" /\ bound = 2
    /\ Len(ProducedRecords) = 2
    /\ ProducedRecords[1] # ProducedRecords[2]
    /\ fieldByIndex(ProducedRecords[2], << 0, 0 >>) = 0

(***************************************************************************)
(* Excluded fields and names claimed twice.                                *)
(***************************************************************************)
\* walking the offsets of p down from t passes no field tagged db:"-"
RECURSIVE AvoidsExcluded(_, _)
AvoidsExcluded(t, p) ==
    \/ p = <<>>
    \/ /\ p[1] < Len(t)
       /\ t[p[1] + 1].Tag # "-"
       /\ AvoidsExcluded(t[p[1] + 1].Elem, Tail(p))

\* t with every field tagged db:"-", at any depth, replaced by the blank
\* unexported field `_ int`, which the resolver lists nothing for
RECURSIVE Blanked(_)
Blanked(t) ==
    [i \in 1..Len(t) |->
        IF t[i].Tag = "-" THEN Fld("_", "", FALSE, FALSE, "int", <<>>)
        ELSE [t[i] EXCEPT !.Elem = Blanked(@)]]

\* t declares a field tagged db:"-", at any depth
RECURSIVE HasExcluded(_)
HasExcluded(t) ==
    \E i \in 1..Len(t) : t[i].Tag = "-" \/ HasExcluded(t[i].Elem)

\* C31: a field tagged db:"-" is skipped entirely, plain or embedded: no
\* entry of the index leads to it or through it, and the resolver's outcome
\* is the one it has when the field is not there to be listed at all.
C31_ExcludedSkipped ==
    resolved =>
        /\ \A k \in DOMAIN outDest.idx : AvoidsExcluded(argT, outDest.idx[k])
        /\ outDest = fillStructFieldIndex(NoIndex, Blanked(argT), <<>>, "")

C31_Witness ==
    /\ resolved /\ Len(argT) = 2
    /\ argT[1] = Fld("Base", "-", TRUE, TRUE, "struct", innermost)
    /\ argT[2] = Fld("Age", "-", FALSE, TRUE, "int", <<>>)
    /\ ~outDest.panic
    /\ outDest.idx = EmptyMap

\* the paths of the fields of t the resolver is to list
ListedPaths(t) == {r.path : r \in Reached(t, <<>>, "")}

\* the column name the resolver forms for the field of t at path p: the
\* field's own name behind the tag of the embedded field declaring it
RECURSIVE ColumnAt(_, _, _)
ColumnAt(t, p, prefix) ==
    IF Len(p) = 1 THEN prefix \o NameOf(t[p[1] + 1])
    ELSE ColumnAt(t[p[1] + 1].Elem, Tail(p), t[p[1] + 1].Tag)

\* the field at path p is processed before the one at path q in depth-first
\* declaration order
RECURSIVE Before(_, _)
Before(p, q) ==
    /\ p # <<>> /\ q # <<>>
    /\ \/ p[1] < q[1]
       \/ p[1] = q[1] /\ Before(Tail(p), Tail(q))

\* two fields of t resolve to one column name
NameClaimedTwice(t) ==
    \E p, q \in ListedPaths(t) : p # q /\ ColumnAt(t, p, "") = ColumnAt(t, q, "")

\* C32: fields resolving to one column name raise no error; the index has
\* one entry per column name, and the entry of a name holds the path of the
\* field processed last, in depth-first declaration order, among the fields
\* resolving to it.
C32_LastFieldWins ==
    (resolved /\ ~ReachesEmbeddedPointer(argT)) =>
        /\ ~outDest.panic
        /\ DOMAIN outDest.idx = {ColumnAt(argT, p, "") : p \in ListedPaths(argT)}
        /\ \A p \in ListedPaths(argT) :
              LET q == outDest.idx[ColumnAt(argT, p, "")]
              IN  /\ q \in ListedPaths(argT)
                  /\ ColumnAt(argT, q, "") = ColumnAt(argT, p, "")
                  /\ ~Before(q, p)

C32_Witness ==
    /\ resolved /\ Len(argT) = 2
    /\ argT[1] = Fld("ID", "uid", FALSE, TRUE, "int", <<>>)
    /\ argT[2] = Fld("Meta", "", TRUE, TRUE, "struct",
                     << Fld("ID", "uid", FALSE, TRUE, "int", <<>>) >>)
    /\ NameClaimedTwice(argT)
    /\ ~outDest.panic
    /\ outDest.idx = ("uid" :> << 1, 0 >>)

=============================================================================
